---- MODULE Spec2Model ----
(***************************************************************************)
(* Model of uv_sql_tool: the type inference engine, the mapping resolver,  *)
(* the SQL emitter (schema_generator.py) and the tool dispatcher           *)
(* (server.py).                                                            *)
(*                                                                         *)
(* Text is modelled as a sequence of one-character strings, so that        *)
(* startswith, strip, re.sub and slicing are computed character by         *)
(* character as the Python code computes them.  A generated SQL text is    *)
(* modelled as a record of the parts the templates interpolate.            *)
(***************************************************************************)
EXTENDS Naturals, Integers, Sequences, FiniteSets, TLC

VARIABLES
    pc,          \* position of the running call
    name,        \* naming policy: the current name
    before,      \* naming policy: the name the last application was given
    applied,     \* naming policy: the applications made so far, in order
    entry,       \* the function the caller called
    table_name,  \* argument table_name of the running call
    max_rows_to_analyze,  \* argument of _analyze_column_data_types
    column_names,         \* local of _analyze_column_data_types
    data_types,           \* local of _analyze_column_data_types (a dict)
    rows_analyzed,        \* local of _analyze_column_data_types
    lines_read,  \* body lines the file iterator has handed out so far
    sampled,     \* the rows that passed the field-count test, in order
    read_log,    \* per body line handed out: its field count, and its fate
    dictionary,  \* the file that dictionary_path names
    attempt,     \* index into encodings_to_try of the running attempt
    mappings,    \* local of _parse_mapping_file
    skip_execution, \* SKIP_EXECUTION of the environment or of mcp.json
    request,     \* the tool call the server handled last
    response,    \* what handle_call_tool returned for it
    generated_sql, \* the files of the generated_sql folder
    executed,    \* the statements executed on the database, in order
    now,         \* datetime.now(), in seconds
    calls,       \* number of tool calls handled
    input_value, \* the text given to _detect_data_type
    detected,    \* what _detect_data_type returned for it
    callers,     \* the generation calls that run concurrently
    frames,      \* the local variables of the running calls
    failure,     \* the exception the callee raised, NoFailure if none
    outcome      \* what the call handed to its caller

nameVars == <<name, before, applied>>
tableVars == <<table_name, max_rows_to_analyze, column_names, data_types,
               rows_analyzed, lines_read, sampled, read_log>>
dictVars == <<dictionary, attempt, mappings>>
callVars == <<entry, failure, outcome>>
serverVars == <<skip_execution, request, response, generated_sql, executed, now, calls>>
classVars == <<input_value, detected>>
concVars == <<callers, frames>>
vars == <<pc, nameVars, tableVars, dictVars, callVars, serverVars, classVars, concVars>>

(***************************************************************************)
(* Bounds                                                                  *)
(***************************************************************************)
MaxNameParts == 3      \* table names are built from at most this many parts
MaxColNameLen == 3     \* raw column names have at most this many characters
MaxApply == 2          \* applications of a naming function in one behaviour
MaxLines == 2          \* body lines of a data file
MaxBudget == 1         \* max_rows_to_analyze given by a direct caller
MaxDictRows == 2       \* body rows of a dictionary file
MaxCalls == 2          \* tool calls the server handles
MaxClock == 1          \* seconds that pass while the server runs
MaxValueLen == 3       \* characters of a value given to _detect_data_type

(***************************************************************************)
(* Text helpers                                                            *)
(***************************************************************************)
Digits == {"0", "1", "2", "3", "4", "5", "6", "7", "8", "9"}
Lower == {"a", "b", "c", "d", "e", "f", "g", "h", "i", "j", "k", "l", "m",
          "n", "o", "p", "q", "r", "s", "t", "u", "v", "w", "x", "y", "z"}
Upper == {"A", "B", "C", "D", "E", "F", "G", "H", "I", "J", "K", "L", "M",
          "N", "O", "P", "Q", "R", "S", "T", "U", "V", "W", "X", "Y", "Z"}
Whitespace == {" ", "\t", "\n", "\r"}

BSeq(S, n) == UNION {[1..k -> S] : k \in 0..n}

RECURSIVE Flatten(_)
Flatten(ss) == IF ss = <<>> THEN <<>> ELSE Head(ss) \o Flatten(Tail(ss))

\* str.startswith(prefix)
StartsWith(s, prefix) ==
    /\ Len(s) >= Len(prefix)
    /\ SubSeq(s, 1, Len(prefix)) = prefix

\* str.strip(): drop leading and trailing whitespace
Strip(s) ==
    LET keep == {i \in 1..Len(s) : s[i] \notin Whitespace}
    IN  IF keep = {} THEN <<>>
        ELSE LET lo == CHOOSE i \in keep : \A j \in keep : i <= j
                 hi == CHOOSE i \in keep : \A j \in keep : j <= i
             IN  SubSeq(s, lo, hi)

src == <<"s", "r", "c">>
stg == <<"s", "t", "g">>
Col_ == <<"C", "o", "l", "_">>

(***************************************************************************)
(* Table naming policy                                                     *)
(***************************************************************************)
SrcPrefixedAlways(tname) == src \o tname

\* prefixed_table_name of generate_create_table_sql
SrcPrefixed(tname) ==
    IF ~StartsWith(tname, src) THEN src \o tname ELSE tname

StgPrefixedAlways(tname) == stg \o tname

\* prefixed_sp_name of generate_stored_procedure
StgPrefixed(tname) ==
    IF ~StartsWith(tname, stg) THEN stg \o tname ELSE tname

\* prefixed_table_name of generate_stored_procedure
SourceTableOf(tname) ==
    IF StartsWith(tname, stg)
    THEN src \o SubSeq(tname, 4, Len(tname))
    ELSE SrcPrefixed(tname)

(***************************************************************************)
(* Column name sanitization                                                *)
(***************************************************************************)
\* re.sub(r'[^a-zA-Z0-9_]', '_', s)
SubNonWord(s) ==
    [i \in 1..Len(s) |->
        IF s[i] \in Lower \cup Upper \cup Digits \cup {"_"} THEN s[i] ELSE "_"]

CleanColNameNoPrefix(col_name) == SubNonWord(col_name)

CleanColNameAnyDigit(col_name) ==
    LET clean_col_name == SubNonWord(col_name)
    IN  IF \E i \in 1..Len(clean_col_name) : clean_col_name[i] \in Digits
        THEN Col_ \o clean_col_name
        ELSE clean_col_name

\* clean_col_name of _analyze_column_data_types and clean_spanish_name of
\* generate_stored_procedure; clean_col_name[0] raises IndexError on the
\* empty name, which callers test with CleanRaises first.
CleanColName(col_name) ==
    LET clean_col_name == SubNonWord(col_name)
    IN  IF clean_col_name[1] \in Digits THEN Col_ \o clean_col_name
        ELSE clean_col_name

CleanRaises(col_name) == SubNonWord(col_name) = <<>>

(***************************************************************************)
(* Per-value type classification (_detect_data_type)                       *)
(***************************************************************************)
UpperSeq == <<"A", "B", "C", "D", "E", "F", "G", "H", "I", "J", "K", "L", "M",
              "N", "O", "P", "Q", "R", "S", "T", "U", "V", "W", "X", "Y", "Z">>
LowerSeq == <<"a", "b", "c", "d", "e", "f", "g", "h", "i", "j", "k", "l", "m",
              "n", "o", "p", "q", "r", "s", "t", "u", "v", "w", "x", "y", "z">>

\* str.lower()
ToLower(s) ==
    [i \in 1..Len(s) |->
        IF s[i] \in Upper
        THEN LowerSeq[CHOOSE k \in 1..Len(UpperSeq) : UpperSeq[k] = s[i]]
        ELSE s[i]]

\* sub in s
Contains(s, sub) ==
    \E i \in 0..(Len(s) - Len(sub)) : SubSeq(s, i + 1, i + Len(sub)) = sub

\* str.endswith(suffix)
EndsWith(s, suffix) ==
    /\ Len(s) >= Len(suffix)
    /\ SubSeq(s, Len(s) - Len(suffix) + 1, Len(s)) = suffix

AllDigits(s) == s # <<>> /\ \A i \in 1..Len(s) : s[i] \in Digits

\* re.match(r'^-?\d+$', value)
IsIntegerText(value) ==
    /\ value # <<>>
    /\ AllDigits(IF value[1] = "-" THEN Tail(value) ELSE value)

\* re.match(r'^-?\d+\.\d+$', value)
IsDecimalText(value) ==
    LET body == IF value # <<>> /\ value[1] = "-" THEN Tail(value) ELSE value
    IN  \E k \in 1..Len(body) :
            /\ body[k] = "."
            /\ AllDigits(SubSeq(body, 1, k - 1))
            /\ AllDigits(SubSeq(body, k + 1, Len(body)))

\* the decimal digits of |int(value)|, without leading zeros
Magnitude(value) ==
    LET body == IF value[1] = "-" THEN Tail(value) ELSE value
        nz == {i \in 1..Len(body) : body[i] # "0"}
    IN  IF nz = {} THEN <<"0">>
        ELSE SubSeq(body, CHOOSE i \in nz : \A j \in nz : i <= j, Len(body))

DigitValue(c) == CHOOSE n \in 0..9 : <<"0", "1", "2", "3", "4", "5", "6", "7", "8", "9">>[n + 1] = c

\* a <= b for two digit strings without leading zeros
DigitsLeq(a, b) ==
    \/ Len(a) < Len(b)
    \/ /\ Len(a) = Len(b)
       /\ \/ a = b
          \/ \E i \in 1..Len(a) :
                /\ SubSeq(a, 1, i - 1) = SubSeq(b, 1, i - 1)
                /\ DigitValue(a[i]) < DigitValue(b[i])

Int32MaxDigits == <<"2", "1", "4", "7", "4", "8", "3", "6", "4", "7">>
Int32MinDigits == <<"2", "1", "4", "7", "4", "8", "3", "6", "4", "8">>

FitsInt32Symmetric(value) == DigitsLeq(Magnitude(value), Int32MaxDigits)

\* -2147483648 <= int(value) <= 2147483647
FitsInt32(value) ==
    IF value[1] = "-" /\ Magnitude(value) # <<"0">>
    THEN DigitsLeq(Magnitude(value), Int32MinDigits)
    ELSE DigitsLeq(Magnitude(value), Int32MaxDigits)

\* a pattern is a text in which "d" stands for \d and any other character
\* for itself
MatchesWhole(value, pattern) ==
    /\ Len(value) = Len(pattern)
    /\ \A i \in 1..Len(pattern) :
          IF pattern[i] = "d" THEN value[i] \in Digits ELSE value[i] = pattern[i]

\* re.match of a pattern that has no trailing $
MatchesPrefix(value, pattern) ==
    /\ Len(value) >= Len(pattern)
    /\ MatchesWhole(SubSeq(value, 1, Len(pattern)), pattern)

date_patterns ==
    << <<"d", "d", "d", "d", "-", "d", "d", "-", "d", "d">>,
       <<"d", "d", "/", "d", "d", "/", "d", "d", "d", "d">>,
       <<"d", "d", "-", "d", "d", "-", "d", "d", "d", "d">>,
       <<"d", "d", "d", "d", "/", "d", "d", "/", "d", "d">> >>

datetime_patterns ==
    << <<"d", "d", "d", "d", "-", "d", "d", "-", "d", "d", " ",
         "d", "d", ":", "d", "d", ":", "d", "d">>,
       <<"d", "d", "/", "d", "d", "/", "d", "d", "d", "d", " ",
         "d", "d", ":", "d", "d", ":", "d", "d">> >>

boolean_tokens ==
    { <<"t", "r", "u", "e">>, <<"f", "a", "l", "s", "e">>, <<"1">>, <<"0">>,
      <<"y", "e", "s">>, <<"n", "o">> }

SmallStringLen == 50
MediumStringLen == 255
LargeStringLen == 4000

StringTypes == {"NVARCHAR(50)", "NVARCHAR(255)", "NVARCHAR(4000)", "NVARCHAR(MAX)"}
SqlTypes == StringTypes \cup {"INT", "BIGINT", "DECIMAL(18,4)", "DATE", "DATETIME2", "BIT"}

\* 'NVARCHAR' in dt
IsStringType(dt) == dt \in StringTypes

\* the classification with the boolean test moved in front of the integer test
DetectDataTypeBooleanFirst(value) ==
    IF value = <<>> \/ Strip(value) = <<>> THEN "NVARCHAR(255)"
    ELSE LET v == Strip(value)
             length == Len(v)
         IN  IF ToLower(v) \in boolean_tokens THEN "BIT"
             ELSE IF IsIntegerText(v)
                 THEN IF FitsInt32(v) THEN "INT" ELSE "BIGINT"
             ELSE IF IsDecimalText(v) THEN "DECIMAL(18,4)"
             ELSE IF \E k \in 1..Len(date_patterns) : MatchesWhole(v, date_patterns[k])
                 THEN "DATE"
             ELSE IF \E k \in 1..Len(datetime_patterns) :
                         MatchesPrefix(v, datetime_patterns[k])
                 THEN "DATETIME2"
             ELSE IF length <= SmallStringLen THEN "NVARCHAR(50)"
             ELSE IF length <= MediumStringLen THEN "NVARCHAR(255)"
             ELSE IF length <= LargeStringLen THEN "NVARCHAR(4000)"
             ELSE "NVARCHAR(MAX)"

DetectDataType(value) ==
    IF value = <<>> \/ Strip(value) = <<>> THEN "NVARCHAR(255)"
    ELSE LET v == Strip(value)
             length == Len(v)
         IN  IF IsIntegerText(v)
                 THEN IF FitsInt32(v) THEN "INT" ELSE "BIGINT"
             ELSE IF IsDecimalText(v) THEN "DECIMAL(18,4)"
             ELSE IF \E k \in 1..Len(date_patterns) : MatchesWhole(v, date_patterns[k])
                 THEN "DATE"
             ELSE IF \E k \in 1..Len(datetime_patterns) :
                         MatchesPrefix(v, datetime_patterns[k])
                 THEN "DATETIME2"
             ELSE IF ToLower(v) \in boolean_tokens THEN "BIT"
             ELSE IF length <= SmallStringLen THEN "NVARCHAR(50)"
             ELSE IF length <= MediumStringLen THEN "NVARCHAR(255)"
             ELSE IF length <= LargeStringLen THEN "NVARCHAR(4000)"
             ELSE "NVARCHAR(MAX)"

(***************************************************************************)
(* Column analysis (_analyze_column_data_types)                            *)
(***************************************************************************)
DefaultMaxRows == 100

\* sep.join(fields): the line a list of fields is written as
RECURSIVE JoinWith(_, _)
JoinWith(fields, sep) ==
    IF fields = <<>> THEN <<>>
    ELSE IF Len(fields) = 1 THEN fields[1]
    ELSE fields[1] \o <<sep>> \o JoinWith(Tail(fields), sep)

JoinPipe(fields) == JoinWith(fields, "|")

\* line.split(sep)
RECURSIVE SplitOn(_, _)
SplitOn(line, sep) ==
    IF \A i \in 1..Len(line) : line[i] # sep THEN <<line>>
    ELSE LET k == CHOOSE i \in 1..Len(line) :
                      /\ line[i] = sep
                      /\ \A j \in 1..(i - 1) : line[j] # sep
         IN  <<SubSeq(line, 1, k - 1)>> \o SplitOn(SubSeq(line, k + 1, Len(line)), sep)

\* [x.strip() for x in line.split('|')]
StrippedFields(line) ==
    LET parts == SplitOn(line, "|")
    IN  [i \in 1..Len(parts) |-> Strip(parts[i])]

\* data_types[col_name] = [] for each header name: one list per distinct name
InitDataTypes(names) ==
    [n \in {names[i] : i \in 1..Len(names)} |-> <<>>]

\* the loop `for i, value in enumerate(values)` from index i on
RECURSIVE AppendDetected(_, _, _, _)
AppendDetected(dts, names, values, i) ==
    IF i > Len(values) THEN dts
    ELSE AppendDetected(
             [dts EXCEPT ![names[i]] = Append(@, DetectDataType(values[i]))],
             names, values, i + 1)

\* type_counts[dt]
Count(dts, dt) == Cardinality({i \in 1..Len(dts) : dts[i] = dt})

\* position at which dt became a key of type_counts
FirstSeen(dts, dt) == CHOOSE i \in 1..Len(dts) : dts[i] = dt /\ \A j \in 1..(i - 1) : dts[j] # dt

\* max(type_counts, key=type_counts.get): the first key, in insertion
\* order, that has the highest count
MostCommon(dts) ==
    LET keys == {dts[i] : i \in 1..Len(dts)}
        best == {t \in keys : \A u \in keys : Count(dts, u) <= Count(dts, t)}
    IN  CHOOSE t \in best : \A u \in best : FirstSeen(dts, t) <= FirstSeen(dts, u)

\* the branch taken when a string type is among the keys
LargestStringType(keys) ==
    IF "NVARCHAR(MAX)" \in keys THEN "NVARCHAR(MAX)"
    ELSE IF "NVARCHAR(4000)" \in keys THEN "NVARCHAR(4000)"
    ELSE IF "NVARCHAR(255)" \in keys THEN "NVARCHAR(255)"
    ELSE "NVARCHAR(50)"

FinalTypeMostCommonOnly(dts) ==
    IF dts = <<>> THEN "NVARCHAR(255)" ELSE MostCommon(dts)

\* final_type of one column from the list data_types[col_name]
FinalType(dts) ==
    LET keys == {dts[i] : i \in 1..Len(dts)}
    IN  IF keys = {} THEN "NVARCHAR(255)"
        ELSE IF \E dt \in keys : IsStringType(dt)
             THEN LargestStringType({dt \in keys : IsStringType(dt)})
        ELSE MostCommon(dts)

\* the loop over column_names that fills columns
Columns(names, dts) ==
    [i \in 1..Len(names) |->
        [col_name |-> CleanColName(names[i]),
         data_type |-> FinalType(dts[names[i]])]]

\* clean_col_name[0] raises IndexError for an empty column name
ColumnsRaise(names) == \E i \in 1..Len(names) : CleanRaises(names[i])

(***************************************************************************)
(* CREATE TABLE emission (generate_create_table_sql)                       *)
(***************************************************************************)
id == <<"i", "d">>
_id == <<"_", "i", "d">>

IsPrimaryKeyAnyIndex(i, col_name) ==
    \/ Contains(ToLower(col_name), id)
    \/ EndsWith(ToLower(col_name), _id)

\* i == 0 and ('id' in col_name.lower() or col_name.lower().endswith('_id'));
\* enumerate counts from 0, sequences from 1
IsPrimaryKey(i, col_name) ==
    /\ i = 1
    /\ \/ Contains(ToLower(col_name), id)
       \/ EndsWith(ToLower(col_name), _id)

\* column_definitions
ColumnDefinitions(columns) ==
    [i \in 1..Len(columns) |->
        [col_name |-> columns[i].col_name,
         data_type |-> columns[i].data_type,
         primary_key |-> IsPrimaryKey(i, columns[i].col_name)]]

\* the text of the success template
CreateTableText(tname, columns) ==
    [marker |-> "none",
     reason |-> "none",
     create_table |-> SrcPrefixed(tname),
     column_definitions |-> ColumnDefinitions(columns),
     columns_analyzed |-> Len(columns)]

\* the text of the fallback template
FallbackTableText(tname, e) ==
    [marker |-> "-- ERROR:",
     reason |-> e.msg,
     create_table |-> SrcPrefixed(tname),
     column_definitions |->
        << [col_name |-> <<"I", "d">>, data_type |-> "INT", primary_key |-> TRUE],
           [col_name |-> <<"D", "a", "t", "a">>, data_type |-> "NVARCHAR(MAX)",
            primary_key |-> FALSE] >>,
     columns_analyzed |-> 0]

\* the exception classes the code raises; all derive from Exception
ExceptionClasses ==
    {"Exception", "FileNotFoundError", "ValueError", "IndexError",
     "UnicodeDecodeError", "KeyError", "TypeError"}

TableCatchesReadErrorsOnly(e) == e.type \in {"Exception", "FileNotFoundError", "ValueError"}

\* `except Exception as e` of generate_create_table_sql
TableCatches(e) == e.type \in ExceptionClasses

\* `except Exception as e: raise Exception(f"Error reading file ...")`
Wrapped(e) == [type |-> "Exception", msg |-> e.msg]

FileNotFound == [type |-> "FileNotFoundError", msg |-> "File not found"]
NoHeader == [type |-> "ValueError", msg |-> "File appears to be empty or has no header"]
DecodeError == [type |-> "UnicodeDecodeError", msg |-> "codec can't decode byte"]
StringIndex == [type |-> "IndexError", msg |-> "string index out of range"]

(***************************************************************************)
(* Mapping resolver (_parse_mapping_file)                                  *)
(***************************************************************************)
SGE_Column_Name ==
    <<"S", "G", "E", " ", "C", "o", "l", "u", "m", "n", " ", "N", "a", 
      "m", "e">>
Spanish_Column_Name ==
    <<"S", "p", "a", "n", "i", "s", "h", " ", "C", "o", "l", "u", "m", 
      "n", " ", "N", "a", "m", "e">>
Source_Column ==
    <<"S", "o", "u", "r", "c", "e", " ", "C", "o", "l", "u", "m", "n">>
English_Column_Name ==
    <<"E", "n", "g", "l", "i", "s", "h", " ", "C", "o", "l", "u", "m", 
      "n", " ", "N", "a", "m", "e">>
Target_Column ==
    <<"T", "a", "r", "g", "e", "t", " ", "C", "o", "l", "u", "m", "n">>
English_Name ==
    <<"E", "n", "g", "l", "i", "s", "h", " ", "N", "a", "m", "e">>
Field_type ==
    <<"F", "i", "e", "l", "d", " ", "t", "y", "p", "e">>
Data_Type ==
    <<"D", "a", "t", "a", " ", "T", "y", "p", "e">>
Type ==
    <<"T", "y", "p", "e">>
String ==
    <<"S", "t", "r", "i", "n", "g">>
DATAAREAID ==
    <<"D", "A", "T", "A", "A", "R", "E", "A", "I", "D">>

\* Python's None, kept apart from every text
None == <<"None">>

\* truth value of a text or None
Truthy(x) == x # None /\ x # <<>>

\* a or b
OrElse(a, b) == IF Truthy(a) THEN a ELSE b

encodings_to_try == <<"utf-8", "utf-8-sig", "latin1", "cp1252", "iso-8859-1">>

\* does the whole file decode under the encoding?  latin1 and iso-8859-1
\* map every byte; the sampled files hold no byte that cp1252 leaves
\* undefined.
Decodes(encoding, file) ==
    IF encoding \in {"utf-8", "utf-8-sig"} THEN file.utf8 ELSE TRUE

\* the first line as decoded: only utf-8-sig drops a leading byte order mark
FirstLine(encoding, file) ==
    (IF file.bom /\ encoding # "utf-8-sig" THEN <<"BOM">> ELSE <<>>)
        \o JoinWith(file.header, file.delimiter)

\* ',' in first_line and '|' not in first_line
IsCsv(first_line) == Contains(first_line, <<",">>) /\ ~Contains(first_line, <<"|">>)

\* row.get(key) on dict(zip(header, values)); csv.DictReader fills the
\* missing trailing fields with None, zip drops them: get gives None in both
RowGet(header, values, key) ==
    LET at == {i \in 1..Len(header) : header[i] = key /\ i <= Len(values)}
    IN  IF at = {} THEN None
        ELSE values[CHOOSE i \in at : \A j \in at : j <= i]

\* the mappings.append of both branches
MappingOf(spanish_col, english_col, field_type) ==
    IF Truthy(spanish_col) /\ Truthy(english_col)
    THEN << [spanish_name |-> Strip(spanish_col),
             english_name |-> Strip(english_col),
             field_type |-> IF Truthy(field_type) THEN Strip(field_type) ELSE String] >>
    ELSE <<>>

\* the body of `for row in reader` for one line of a comma-delimited file
CsvRowMappings(fieldnames, values) ==
    MappingOf(
        OrElse(OrElse(RowGet(fieldnames, values, SGE_Column_Name),
                      RowGet(fieldnames, values, Spanish_Column_Name)),
               RowGet(fieldnames, values, Source_Column)),
        OrElse(OrElse(RowGet(fieldnames, values, English_Column_Name),
                      RowGet(fieldnames, values, Target_Column)),
               RowGet(fieldnames, values, English_Name)),
        OrElse(OrElse(RowGet(fieldnames, values, Field_type),
                      RowGet(fieldnames, values, Data_Type)),
               RowGet(fieldnames, values, Type)))

\* the body of `for line in lines[1:]` for one line of a pipe-delimited file
PipeRowMappings(header, line) ==
    IF Strip(line) = <<>> THEN <<>>
    ELSE LET values == StrippedFields(Strip(line))
         IN  IF Len(values) >= 3
             THEN MappingOf(
                      OrElse(RowGet(header, values, SGE_Column_Name),
                             IF Len(values) > 2 THEN values[3] ELSE None),
                      OrElse(RowGet(header, values, English_Column_Name),
                             IF Len(values) > 3 THEN values[4] ELSE None),
                      OrElse(RowGet(header, values, Field_type),
                             IF Len(values) > 1 THEN values[2] ELSE String))
             ELSE <<>>

\* the mappings of the body rows, in row order, under one format
RowMappings(first_line, file, rows) ==
    IF IsCsv(first_line)
    THEN Flatten([k \in 1..Len(rows) |->
             CsvRowMappings(SplitOn(first_line, ","),
                            SplitOn(JoinWith(rows[k], file.delimiter), ","))])
    ELSE Flatten([k \in 1..Len(rows) |->
             PipeRowMappings(StrippedFields(Strip(first_line)),
                             JoinWith(rows[k], file.delimiter))])

\* One pass of the loop body under one encoding: the rows it appends to
\* mappings and the exception that ends it.  The comma branch reads the
\* file row by row, so the rows that lie before the undecodable bytes are
\* appended before UnicodeDecodeError is raised; the pipe branch decodes
\* the whole file in readlines() before it parses a row.
Attempt(encoding, file) ==
    LET first_line == FirstLine(encoding, file)
    IN  IF IsCsv(first_line)
        THEN IF Decodes(encoding, file)
             THEN [appended |-> RowMappings(first_line, file, file.rows),
                   error |-> "none"]
             ELSE [appended |-> RowMappings(first_line, file,
                                            SubSeq(file.rows, 1, file.readable)),
                   error |-> "UnicodeDecodeError"]
        ELSE IF ~Decodes(encoding, file)
             THEN [appended |-> <<>>, error |-> "UnicodeDecodeError"]
        ELSE IF first_line = <<>> /\ file.rows = <<>>
             THEN [appended |-> <<>>, error |-> "ValueError"]
        ELSE [appended |-> RowMappings(first_line, file, file.rows), error |-> "none"]

DictionaryNotFound == [type |-> "FileNotFoundError", msg |-> "Dictionary file not found"]
EmptyDictionary == [type |-> "ValueError", msg |-> "Empty dictionary file"]
CouldNotParse == [type |-> "Exception", msg |-> "Could not parse dictionary file"]

(***************************************************************************)
(* Stored procedure emission (generate_stored_procedure)                   *)
(***************************************************************************)
FloatTypes == { <<"n", "u", "m", "b", "e", "r">>, <<"n", "u", "m", "e", "r", "i", "c">>,
                <<"f", "l", "o", "a", "t">>, <<"d", "e", "c", "i", "m", "a", "l">> }
IntTypes == { <<"i", "n", "t">>, <<"i", "n", "t", "e", "g", "e", "r">> }
DateTypes == { <<"d", "a", "t", "e">>, <<"d", "a", "t", "e", "t", "i", "m", "e">> }
BitTypes == { <<"b", "i", "t">>, <<"b", "o", "o", "l", "e", "a", "n">>,
              <<"b", "o", "o", "l">> }

\* _get_sql_data_type
GetSqlDataType(field_type) ==
    LET ft == Strip(ToLower(field_type))
    IN  IF ft \in FloatTypes THEN "FLOAT"
        ELSE IF ft \in IntTypes THEN "INT"
        ELSE IF ft \in DateTypes THEN "NVARCHAR(MAX)"
        ELSE IF ft \in BitTypes THEN "BIT"
        ELSE "NVARCHAR(MAX)"

\* english_name.replace(' ', '')
RemoveSpaces(s) == SelectSeq(s, LAMBDA c : c # " ")

\* create_table_columns
CreateTableColumns(maps) ==
    [k \in 1..Len(maps) |->
        [col_name |-> RemoveSpaces(maps[k].english_name),
         sql_type |-> GetSqlDataType(maps[k].field_type)]]
    \o << [col_name |-> DATAAREAID, sql_type |-> "NVARCHAR(4)"] >>

\* insert_columns
InsertColumns(maps) ==
    [k \in 1..Len(maps) |-> RemoveSpaces(maps[k].english_name)] \o <<DATAAREAID>>

SelectMappingsUnsanitized(maps) ==
    [k \in 1..Len(maps) |->
        [source |-> maps[k].spanish_name,
         alias |-> RemoveSpaces(maps[k].english_name)]]
    \o << [source |-> <<"'", "U", "S", "M", "F", "'">>, alias |-> DATAAREAID] >>

\* select_mappings
SelectMappings(maps) ==
    [k \in 1..Len(maps) |->
        [source |-> CleanColName(maps[k].spanish_name),
         alias |-> RemoveSpaces(maps[k].english_name)]]
    \o << [source |-> <<"'", "U", "S", "M", "F", "'">>, alias |-> DATAAREAID] >>

\* clean_spanish_name[0] raises IndexError for an empty source name
SelectMappingsRaise(maps) == \E k \in 1..Len(maps) : CleanRaises(maps[k].spanish_name)

_StoredProcedure ==
    <<"_", "S", "t", "o", "r", "e", "d", "P", "r", "o", "c", "e", "d", "u", "r", "e">>

\* the text of the success template
StoredProcedureText(tname, maps) ==
    [marker |-> "none",
     reason |-> "none",
     procedure |-> StgPrefixed(tname) \o _StoredProcedure,
     staging_table |-> StgPrefixed(tname),
     create_table_columns |-> CreateTableColumns(maps),
     insert_columns |-> InsertColumns(maps),
     select_mappings |-> SelectMappings(maps),
     from_table |-> SourceTableOf(tname),
     columns_mapped |-> Len(maps)]

\* the text of the fallback template: SELECT * FROM the source table
FallbackProcedureText(tname, e) ==
    [marker |-> "-- ERROR:",
     reason |-> e.msg,
     procedure |-> StgPrefixed(tname) \o _StoredProcedure,
     staging_table |-> <<>>,
     create_table_columns |-> <<>>,
     insert_columns |-> <<>>,
     select_mappings |-> << [source |-> <<"*">>, alias |-> <<>>] >>,
     from_table |-> SourceTableOf(tname),
     columns_mapped |-> 0]

ProcedureCatchesReadErrorsOnly(e) ==
    e.type \in {"Exception", "FileNotFoundError", "ValueError"}

\* `except Exception as e` of generate_stored_procedure
ProcedureCatches(e) == e.type \in ExceptionClasses

(***************************************************************************)
(* Inputs of the naming specifications                                     *)
(***************************************************************************)
NameParts == {src, stg, <<"s">>, <<"t">>, <<"F">>}
TableNames == {Flatten(ps) : ps \in BSeq(NameParts, MaxNameParts)}

ColAlphabet == {"a", "D", "1", "_", " ", "-"}
RawColNames == BSeq(ColAlphabet, MaxColNameLen)

NoFailure == [type |-> "none", msg |-> "none"]

NoCall ==
    /\ entry = "none"
    /\ failure = NoFailure
    /\ outcome = [kind |-> "none"]

NoNaming ==
    /\ name = <<>>
    /\ before = <<>>
    /\ applied = <<>>

NoTable ==
    /\ table_name = <<>>
    /\ max_rows_to_analyze = 0
    /\ column_names = <<>>
    /\ data_types = <<>>
    /\ rows_analyzed = 0
    /\ lines_read = 0
    /\ sampled = <<>>
    /\ read_log = <<>>

\* a dictionary_path that names no file
MissingFile ==
    [exists |-> FALSE, bom |-> FALSE, delimiter |-> "|", header |-> <<>>,
     rows |-> <<>>, utf8 |-> TRUE, readable |-> 0]

NoDictionary ==
    /\ dictionary = MissingFile
    /\ attempt = 0
    /\ mappings = <<>>

NoConcurrent ==
    /\ callers = <<>>
    /\ frames = <<>>

NoClassify ==
    /\ input_value = <<>>
    /\ detected = "none"

NoServer ==
    /\ skip_execution = FALSE
    /\ request = [name |-> "none", arguments |-> <<>>]
    /\ response = [kind |-> "none"]
    /\ generated_sql = {}
    /\ executed = <<>>
    /\ now = 0
    /\ calls = 0

(***************************************************************************)
(* SpecNaming: the prefix functions applied to table names                 *)
(***************************************************************************)
InitNaming ==
    /\ NoServer
    /\ NoClassify
    /\ NoConcurrent
    /\ pc = "naming"
    /\ name \in TableNames
    /\ before = name
    /\ applied = <<>>
    /\ NoTable
    /\ NoDictionary
    /\ NoCall

ApplySrcPrefix ==
    /\ pc = "naming"
    /\ Len(applied) < MaxApply
    /\ name' = SrcPrefixed(name)
    /\ before' = name
    /\ applied' = Append(applied, "src")
    /\ UNCHANGED <<concVars, classVars, serverVars, pc, tableVars, dictVars, callVars>>

ApplyStgPrefix ==
    /\ pc = "naming"
    /\ Len(applied) < MaxApply
    /\ name' = StgPrefixed(name)
    /\ before' = name
    /\ applied' = Append(applied, "stg")
    /\ UNCHANGED <<concVars, classVars, serverVars, pc, tableVars, dictVars, callVars>>

NextNaming == ApplySrcPrefix \/ ApplyStgPrefix

SpecNaming == InitNaming /\ [][NextNaming]_vars

(***************************************************************************)
(* SpecSanitize: column name sanitization applied to raw column names      *)
(***************************************************************************)
InitSanitize ==
    /\ NoServer
    /\ NoClassify
    /\ NoConcurrent
    /\ pc = "sanitize"
    /\ name \in RawColNames
    /\ before = name
    /\ applied = <<>>
    /\ NoTable
    /\ NoDictionary
    /\ NoCall

Sanitize ==
    /\ pc = "sanitize"
    /\ Len(applied) < MaxApply
    /\ ~CleanRaises(name)
    /\ name' = CleanColName(name)
    /\ before' = name
    /\ applied' = Append(applied, "clean")
    /\ UNCHANGED <<concVars, classVars, serverVars, pc, tableVars, dictVars, callVars>>

SanitizeRaises ==
    /\ pc = "sanitize"
    /\ CleanRaises(name)
    /\ pc' = "IndexError"
    /\ UNCHANGED <<concVars, classVars, serverVars, nameVars, tableVars, dictVars, callVars>>

NextSanitize == Sanitize \/ SanitizeRaises

SpecSanitize == InitSanitize /\ [][NextSanitize]_vars

(***************************************************************************)
(* SpecTable: one call of generate_create_table_sql, or of                 *)
(* _analyze_column_data_types by a direct caller.  The data file is the    *)
(* environment: whether the path exists, the header line and each body     *)
(* line are chosen when the code reads them.                               *)
(***************************************************************************)
Pad(n) == [i \in 1..n |-> "x"]

\* header lines, as the list of fields written between the pipes
HeaderSamples ==
    { <<>>,                                           \* an empty file
      << <<" ">> >>,                                  \* a blank header line
      << id >>,
      << <<"1", "a">> >>,
      << <<" ", "N", "o", ".", " ">> >>,
      << <<"U", "s", "e", "r", "_", "I", "D">>, <<"a", " ", "b">> >>,
      << <<"a">>, <<"a">> >>,                         \* one name twice
      << id, <<>> >>,                                 \* a trailing pipe
      << <<"P", "a", "i", "d">>, <<"u", "i", "d">> >> }

\* body values: INT, DECIMAL(18,4), blank, NVARCHAR(50), NVARCHAR(255)
SampleValues ==
    { <<"7">>, <<"3", ".", "5">>, <<>>, <<"a", "b", "c">>, Pad(SmallStringLen + 1) }

\* body lines, as the list of fields written between the pipes
RowSamples == [1..1 -> SampleValues] \cup [1..2 -> SampleValues]

\* what the loop makes of each body line: line.strip() and the stripped
\* fields of its split, computed once for every line of RowSamples
BodyLines ==
    { [line |-> Strip(JoinPipe(fields)),
       values |-> StrippedFields(Strip(JoinPipe(fields)))] : fields \in RowSamples }

CallTableNames == { <<"F">>, src \o <<"F">> }

InitTable ==
    /\ NoServer
    /\ NoClassify
    /\ NoConcurrent
    /\ pc = "call"
    /\ NoNaming
    /\ \/ /\ entry = "generate_create_table_sql"
          /\ table_name \in CallTableNames
          /\ max_rows_to_analyze = DefaultMaxRows
       \/ /\ entry = "_analyze_column_data_types"
          /\ table_name = <<>>
          /\ max_rows_to_analyze \in 1..MaxBudget
    /\ column_names = <<>>
    /\ data_types = <<>>
    /\ rows_analyzed = 0
    /\ lines_read = 0
    /\ sampled = <<>>
    /\ read_log = <<>>
    /\ NoDictionary
    /\ failure = NoFailure
    /\ outcome = [kind |-> "none"]

BudgetUsedUpLate(rows, max_rows) == rows > max_rows

\* if rows_analyzed >= max_rows_to_analyze: break
BudgetUsedUp(rows, max_rows) == rows >= max_rows

\* the fields of a body line; a blank line is skipped before it is split
\* and has none
FieldCount(b) == IF b.line = <<>> THEN 0 ELSE Len(b.values)

\* exception e leaves _analyze_column_data_types
AnalysisRaises(e) ==
    /\ pc' = "done"
    /\ failure' = e
    /\ outcome' =
          IF entry = "generate_create_table_sql" /\ TableCatches(e)
          THEN [kind |-> "returned", value |-> FallbackTableText(table_name, e)]
          ELSE [kind |-> "raised", exc |-> e]
    /\ UNCHANGED <<concVars, classVars, serverVars, entry, nameVars, tableVars, dictVars>>

\* os.path.exists(file_path) is false
FileMissing ==
    /\ pc = "call"
    /\ AnalysisRaises(FileNotFound)

\* the header line cannot be decoded as UTF-8
HeaderUndecodable ==
    /\ pc = "call"
    /\ AnalysisRaises(Wrapped(DecodeError))

\* file.readline().strip() is empty
HeaderEmpty ==
    /\ pc = "call"
    /\ \E fields \in HeaderSamples :
          /\ Strip(JoinPipe(fields)) = <<>>
          /\ AnalysisRaises(Wrapped(NoHeader))

\* the header is read and the tracking dict initialised
ReadHeader ==
    /\ pc = "call"
    /\ \E fields \in HeaderSamples :
          LET header_line == Strip(JoinPipe(fields))
          IN  /\ header_line # <<>>
              /\ column_names' = StrippedFields(header_line)
              /\ data_types' = InitDataTypes(StrippedFields(header_line))
    /\ pc' = "rows"
    /\ UNCHANGED <<concVars, classVars, serverVars, table_name, max_rows_to_analyze, rows_analyzed, lines_read,
                   sampled, read_log, nameVars, dictVars, callVars>>

\* one iteration of `for line in file` that ends in `continue`
SkipLine ==
    /\ pc = "rows"
    /\ ~BudgetUsedUp(rows_analyzed, max_rows_to_analyze)
    /\ lines_read < MaxLines
    /\ \E b \in BodyLines :
          /\ \/ b.line = <<>>
             \/ Len(b.values) # Len(column_names)
          /\ read_log' = Append(read_log, [fields |-> FieldCount(b), analysed |-> FALSE])
    /\ lines_read' = lines_read + 1
    /\ UNCHANGED <<concVars, classVars, serverVars, pc, table_name, max_rows_to_analyze, column_names, data_types,
                   rows_analyzed, sampled, nameVars, dictVars, callVars>>

\* one iteration of `for line in file` that analyses the row
AnalyzeRow ==
    /\ pc = "rows"
    /\ ~BudgetUsedUp(rows_analyzed, max_rows_to_analyze)
    /\ lines_read < MaxLines
    /\ \E b \in BodyLines :
          /\ b.line # <<>>
          /\ Len(b.values) = Len(column_names)
          /\ data_types' = AppendDetected(data_types, column_names, b.values, 1)
          /\ sampled' = Append(sampled, b.values)
          /\ read_log' = Append(read_log, [fields |-> FieldCount(b), analysed |-> TRUE])
    /\ rows_analyzed' = rows_analyzed + 1
    /\ lines_read' = lines_read + 1
    /\ UNCHANGED <<concVars, classVars, serverVars, pc, table_name, max_rows_to_analyze, column_names,
                   nameVars, dictVars, callVars>>

\* a body line cannot be decoded as UTF-8
LineUndecodable ==
    /\ pc = "rows"
    /\ ~BudgetUsedUp(rows_analyzed, max_rows_to_analyze)
    /\ lines_read < MaxLines
    /\ AnalysisRaises(Wrapped(DecodeError))

\* the loop ends: the file is exhausted, or the sample budget is used up
EndOfRows ==
    /\ pc = "rows"
    /\ pc' = "resolve"
    /\ UNCHANGED <<concVars, classVars, serverVars, nameVars, tableVars, dictVars, callVars>>

\* the final types are resolved; an empty column name raises IndexError
ResolveRaises ==
    /\ pc = "resolve"
    /\ ColumnsRaise(column_names)
    /\ AnalysisRaises(StringIndex)

\* _analyze_column_data_types returns columns to a direct caller
ReturnColumns ==
    /\ pc = "resolve"
    /\ entry = "_analyze_column_data_types"
    /\ ~ColumnsRaise(column_names)
    /\ pc' = "done"
    /\ outcome' = [kind |-> "returned", value |-> Columns(column_names, data_types)]
    /\ UNCHANGED <<concVars, classVars, serverVars, entry, failure, nameVars, tableVars, dictVars>>

\* generate_create_table_sql renders the columns it got
ReturnCreateTable ==
    /\ pc = "resolve"
    /\ entry = "generate_create_table_sql"
    /\ ~ColumnsRaise(column_names)
    /\ pc' = "done"
    /\ outcome' = [kind |-> "returned",
                   value |-> CreateTableText(table_name,
                                             Columns(column_names, data_types))]
    /\ UNCHANGED <<concVars, classVars, serverVars, entry, failure, nameVars, tableVars, dictVars>>

NextTable ==
    \/ FileMissing
    \/ HeaderUndecodable
    \/ HeaderEmpty
    \/ ReadHeader
    \/ SkipLine
    \/ AnalyzeRow
    \/ LineUndecodable
    \/ EndOfRows
    \/ ResolveRaises
    \/ ReturnColumns
    \/ ReturnCreateTable

SpecTable == InitTable /\ [][NextTable]_vars

(***************************************************************************)
(* SpecProc: generate_stored_procedure and _parse_mapping_file             *)
(***************************************************************************)
\* header lines: the names the code looks up, the aliases that only the
\* comma branch looks up, and four names it does not know
StandardHeader == <<SGE_Column_Name, English_Column_Name, Field_type>>
AliasHeader == <<Source_Column, Target_Column, Data_Type>>
UnknownHeader == << <<"n">>, <<"t">>, <<"s">>, <<"e">> >>
DictHeaders == {StandardHeader, AliasHeader, UnknownHeader}

\* body rows: a full row, a row whose source name is white space, a row of
\* two fields, and a row of four fields whose third starts with a digit
DictRows ==
    { << <<"n", "o">>, <<"N", " ", "o">>, <<"i", "n", "t">> >>,
      << <<" ">>, <<"A">>, <<"i", "n", "t">> >>,
      << <<"x">>, <<"y">> >>,
      << <<"1">>, <<"b", "i", "t">>, <<"1", "d">>, <<"A">> >> }

\* a file of no bytes
EmptyFile ==
    [exists |-> TRUE, bom |-> FALSE, delimiter |-> "|", header |-> <<>>,
     rows |-> <<>>, utf8 |-> TRUE, readable |-> 0]

\* Files with a header line and up to MaxDictRows rows.  A file that is not
\* UTF-8 holds its first undecodable byte after `readable` body rows.
Dictionaries ==
    {MissingFile, EmptyFile} \cup
    { f \in [exists : {TRUE}, bom : BOOLEAN, delimiter : {",", "|"},
             header : DictHeaders, rows : BSeq(DictRows, MaxDictRows),
             utf8 : BOOLEAN, readable : 0..MaxDictRows] :
        /\ f.readable <= Len(f.rows)
        /\ f.utf8 => f.readable = Len(f.rows)
        /\ f.bom => f.utf8 }

BasicDictionaries ==
    { MissingFile,
      [exists |-> TRUE, bom |-> FALSE, delimiter |-> ",",
       header |-> StandardHeader,
       rows |-> << << <<"n", "o">>, <<"N", " ", "o">>, <<"i", "n", "t">> >> >>,
       utf8 |-> TRUE, readable |-> 1] }

InitProc ==
    /\ NoServer
    /\ NoClassify
    /\ NoConcurrent
    /\ pc = "call"
    /\ NoNaming
    /\ \/ /\ entry = "generate_stored_procedure"
          /\ \/ table_name \in TableNames /\ dictionary \in BasicDictionaries
             \/ table_name \in CallTableNames /\ dictionary \in Dictionaries
       \/ /\ entry = "_parse_mapping_file"
          /\ table_name = <<>>
          /\ dictionary \in Dictionaries
    /\ max_rows_to_analyze = 0
    /\ column_names = <<>>
    /\ data_types = <<>>
    /\ rows_analyzed = 0
    /\ lines_read = 0
    /\ sampled = <<>>
    /\ read_log = <<>>
    /\ attempt = 0
    /\ mappings = <<>>
    /\ failure = NoFailure
    /\ outcome = [kind |-> "none"]

\* exception e leaves _parse_mapping_file or the column-list loops
ProcedureRaises(e) ==
    /\ pc' = "done"
    /\ failure' = e
    /\ outcome' =
          IF entry = "generate_stored_procedure" /\ ProcedureCatches(e)
          THEN [kind |-> "returned", value |-> FallbackProcedureText(table_name, e)]
          ELSE [kind |-> "raised", exc |-> e]
    /\ UNCHANGED <<concVars, classVars, serverVars, entry, nameVars, tableVars, dictVars>>

\* os.path.exists(dictionary_path) is false
DictionaryMissing ==
    /\ pc = "call"
    /\ ~dictionary.exists
    /\ ProcedureRaises(DictionaryNotFound)

\* mappings = [] and the first encoding of the loop
StartAttempts ==
    /\ pc = "call"
    /\ dictionary.exists
    /\ pc' = "try"
    /\ attempt' = 1
    /\ mappings' = <<>>
    /\ UNCHANGED <<concVars, classVars, serverVars, dictionary, nameVars, tableVars, callVars>>

\* except UnicodeDecodeError: continue, with what the attempt appended
AttemptDecodeError ==
    /\ pc = "try"
    /\ attempt <= Len(encodings_to_try)
    /\ LET r == Attempt(encodings_to_try[attempt], dictionary)
       IN  /\ r.error = "UnicodeDecodeError"
           /\ mappings' = mappings \o r.appended
    /\ attempt' = attempt + 1
    /\ UNCHANGED <<concVars, classVars, serverVars, pc, dictionary, nameVars, tableVars, callVars>>

\* except Exception: raise Exception("Error reading dictionary file ...")
AttemptRaises ==
    /\ pc = "try"
    /\ attempt <= Len(encodings_to_try)
    /\ Attempt(encodings_to_try[attempt], dictionary).error = "ValueError"
    /\ ProcedureRaises(Wrapped(EmptyDictionary))

\* if mappings: break
AttemptBreaks ==
    /\ pc = "try"
    /\ attempt <= Len(encodings_to_try)
    /\ LET r == Attempt(encodings_to_try[attempt], dictionary)
       IN  /\ r.error = "none"
           /\ mappings \o r.appended # <<>>
           /\ mappings' = mappings \o r.appended
    /\ pc' = "parsed"
    /\ UNCHANGED <<concVars, classVars, serverVars, attempt, dictionary, nameVars, tableVars, callVars>>

\* the attempt decoded the file and mappings is still empty: next encoding
AttemptYieldsNothing ==
    /\ pc = "try"
    /\ attempt <= Len(encodings_to_try)
    /\ LET r == Attempt(encodings_to_try[attempt], dictionary)
       IN  /\ r.error = "none"
           /\ mappings \o r.appended = <<>>
    /\ attempt' = attempt + 1
    /\ UNCHANGED <<concVars, classVars, serverVars, pc, dictionary, mappings, nameVars, tableVars, callVars>>

\* the for loop runs out of encodings
EncodingsExhausted ==
    /\ pc = "try"
    /\ attempt > Len(encodings_to_try)
    /\ pc' = "parsed"
    /\ UNCHANGED <<concVars, classVars, serverVars, dictionary, attempt, mappings, nameVars, tableVars, callVars>>

\* if not mappings: raise Exception("Could not parse dictionary file ...")
ParseFails ==
    /\ pc = "parsed"
    /\ mappings = <<>>
    /\ ProcedureRaises(CouldNotParse)

\* return mappings, to a direct caller
ReturnMappings ==
    /\ pc = "parsed"
    /\ mappings # <<>>
    /\ entry = "_parse_mapping_file"
    /\ pc' = "done"
    /\ outcome' = [kind |-> "returned", value |-> mappings]
    /\ UNCHANGED <<concVars, classVars, serverVars, entry, failure, nameVars, tableVars, dictVars>>

\* clean_spanish_name[0] raises in the select_mappings loop
BuildRaises ==
    /\ pc = "parsed"
    /\ mappings # <<>>
    /\ entry = "generate_stored_procedure"
    /\ SelectMappingsRaise(mappings)
    /\ ProcedureRaises(StringIndex)

\* the return of the success template
ReturnProcedure ==
    /\ pc = "parsed"
    /\ mappings # <<>>
    /\ entry = "generate_stored_procedure"
    /\ ~SelectMappingsRaise(mappings)
    /\ pc' = "done"
    /\ outcome' = [kind |-> "returned",
                   value |-> StoredProcedureText(table_name, mappings)]
    /\ UNCHANGED <<concVars, classVars, serverVars, entry, failure, nameVars, tableVars, dictVars>>

NextProc ==
    \/ DictionaryMissing
    \/ StartAttempts
    \/ AttemptDecodeError
    \/ AttemptRaises
    \/ AttemptBreaks
    \/ AttemptYieldsNothing
    \/ EncodingsExhausted
    \/ ParseFails
    \/ ReturnMappings
    \/ BuildRaises
    \/ ReturnProcedure

SpecProc == InitProc /\ [][NextProc]_vars

(***************************************************************************)
(* SpecServer: handle_call_tool and _execute_tool                          *)
(***************************************************************************)
SQL_TOOLS_BY_NAME == {"create_table", "create_stored_procedure"}

\* the names a client may call; "drop_table" is not a tool
ToolNames == SQL_TOOLS_BY_NAME \cup {"drop_table"}

\* the keys whose presence makes _execute_tool build a connection config
ConnectionKeys == {"server", "database", "username", "password", "config_file"}

ArgumentKeys ==
    {"table_name", "csv_file_path", "dictionary_path", "reference_sp_path", "server"}

\* arguments: a dict with any of the keys
ArgumentDicts ==
    { [k \in K |-> IF k = "table_name" THEN t ELSE k] :
        K \in SUBSET ArgumentKeys, t \in CallTableNames }

Requests == [name : ToolNames, arguments : ArgumentDicts]

\* arguments.get(key)
DictGet(arguments, key) ==
    IF key \in DOMAIN arguments THEN arguments[key] ELSE None

\* the keys a branch reads with arguments[key]
SubscriptedKeys(tool) ==
    IF tool = "create_table" THEN {"csv_file_path", "table_name"}
    ELSE IF tool = "create_stored_procedure" THEN {"table_name", "dictionary_path"}
    ELSE {}

\* the parameters of generate_stored_procedure
GenerateStoredProcedureParams == <<"table_name", "dictionary_path">>

\* the positional arguments the create_stored_procedure branch passes
StoredProcedureCallArgs(arguments) ==
    <<arguments["table_name"], arguments["dictionary_path"],
      DictGet(arguments, "reference_sp_path")>>

\* Python binds positional arguments to parameters one to one
CallBinds(args, params) == Len(args) <= Len(params)

UnknownTool == [type |-> "ValueError", msg |-> "Unknown tool"]
InvalidConfig == [type |-> "ValueError", msg |-> "invalid configuration file"]
MissingKey == [type |-> "KeyError", msg |-> "missing key"]
TooManyArguments ==
    [type |-> "TypeError",
     msg |-> "generate_stored_procedure() takes 2 positional arguments but 3 were given"]
DatabaseError == [type |-> "Exception", msg |-> "database error"]

\* `except Exception as e` of handle_call_tool
HandlerCatches(e) == e.type \in ExceptionClasses

\* The texts the generators can return for a table name; which one depends
\* on the file the path names (SpecTable and SpecProc compute them).
TableTexts(tname) ==
    { FallbackTableText(tname, FileNotFound),
      CreateTableText(tname, << [col_name |-> id, data_type |-> "INT"] >>) }

ProcedureTexts(tname) ==
    { FallbackProcedureText(tname, DictionaryNotFound),
      StoredProcedureText(tname,
          << [spanish_name |-> <<"n", "o">>, english_name |-> <<"N", "o">>,
              field_type |-> <<"i", "n", "t">>] >>) }

\* generated_sql/<prefixed_table_name>_create_table_<timestamp>.sql
TableFileName(tname, timestamp) ==
    [stem |-> SrcPrefixed(tname), kind |-> "_create_table_", timestamp |-> <<timestamp>>]

\* generated_sql/<prefixed_sp_name>_StoredProcedure.sql
ProcedureFileName(tname) ==
    [stem |-> StgPrefixed(tname), kind |-> "_StoredProcedure", timestamp |-> <<>>]

\* open(filename, 'w') and the writes: a file of that name is replaced
Written(folder, filename, text) ==
    {f \in folder : f.name # filename} \cup {[name |-> filename, text |-> text]}

InitServer ==
    /\ pc = "idle"
    /\ NoClassify
    /\ NoConcurrent
    /\ NoNaming
    /\ NoTable
    /\ NoDictionary
    /\ NoCall
    /\ skip_execution \in BOOLEAN
    /\ request = [name |-> "none", arguments |-> <<>>]
    /\ response = [kind |-> "none"]
    /\ generated_sql = {}
    /\ executed = <<>>
    /\ now = 0
    /\ calls = 0

\* the call arrives at handle_call_tool
Received(req) ==
    /\ calls < MaxCalls
    /\ request' = req
    /\ calls' = calls + 1
    /\ UNCHANGED <<pc, skip_execution, now, nameVars, tableVars, dictVars, callVars,
                   classVars, concVars>>

\* _execute_tool got past the tool lookup and the connection config
Dispatched(req, tool) ==
    /\ Received(req)
    /\ req.name = tool
    /\ SubscriptedKeys(tool) \subseteq DOMAIN req.arguments

\* exception e leaves _execute_tool
ExecuteRaises(req, e) ==
    /\ response' = IF HandlerCatches(e)
                   THEN [kind |-> "error", name |-> req.name, exc |-> e]
                   ELSE [kind |-> "raised", name |-> req.name, exc |-> e]
    /\ UNCHANGED <<generated_sql, executed>>

\* name not in SQL_TOOLS_BY_NAME
CallUnknownTool ==
    \E req \in Requests :
        /\ Received(req)
        /\ req.name \notin SQL_TOOLS_BY_NAME
        /\ ExecuteRaises(req, UnknownTool)

\* get_sql_config raises on the configuration file it finds
ConfigFails ==
    \E req \in Requests :
        /\ Received(req)
        /\ req.name \in SQL_TOOLS_BY_NAME
        /\ DOMAIN req.arguments \cap ConnectionKeys # {}
        /\ ExecuteRaises(req, InvalidConfig)

\* arguments[key] of a key the call did not give
MissingArgument ==
    \E req \in Requests :
        /\ Received(req)
        /\ req.name \in SQL_TOOLS_BY_NAME
        /\ ~(SubscriptedKeys(req.name) \subseteq DOMAIN req.arguments)
        /\ ExecuteRaises(req, MissingKey)

\* create_table with skip_execution: the text is written to a new file
CreateTableSkipped ==
    \E req \in Requests :
        /\ Dispatched(req, "create_table")
        /\ skip_execution
        /\ \E sql \in TableTexts(req.arguments["table_name"]) :
             LET sql_filename == TableFileName(req.arguments["table_name"], now)
             IN  /\ generated_sql' = Written(generated_sql, sql_filename, sql)
                 /\ response' = [kind |-> "result", skipped |-> TRUE, sql |-> sql,
                                 sql_file |-> sql_filename, error |-> "none"]
        /\ UNCHANGED executed

\* create_table with skip_execution: opening or writing the file raises
CreateTableNotSaved ==
    \E req \in Requests :
        /\ Dispatched(req, "create_table")
        /\ skip_execution
        /\ \E sql \in TableTexts(req.arguments["table_name"]) :
             response' = [kind |-> "result", skipped |-> TRUE, sql |-> sql,
                          sql_file |-> "none", error |-> "could not save"]
        /\ UNCHANGED <<generated_sql, executed>>

\* create_table without skip_execution: execute_sql_on_azure returns
CreateTableExecuted ==
    \E req \in Requests :
        /\ Dispatched(req, "create_table")
        /\ ~skip_execution
        /\ \E sql \in TableTexts(req.arguments["table_name"]) :
             executed' = Append(executed, sql)
        /\ response' = [kind |-> "result", skipped |-> FALSE,
                        created |-> SrcPrefixed(req.arguments["table_name"])]
        /\ UNCHANGED generated_sql

\* create_table without skip_execution: execute_sql_on_azure raises
CreateTableExecutionFails ==
    \E req \in Requests :
        /\ Dispatched(req, "create_table")
        /\ ~skip_execution
        /\ ExecuteRaises(req, DatabaseError)

\* The create_stored_procedure branch.  The call of
\* generate_stored_procedure passes three positional arguments.
CreateStoredProcedure ==
    \E req \in Requests :
        /\ Dispatched(req, "create_stored_procedure")
        /\ IF ~CallBinds(StoredProcedureCallArgs(req.arguments),
                         GenerateStoredProcedureParams)
           THEN ExecuteRaises(req, TooManyArguments)
           ELSE \E result \in ProcedureTexts(req.arguments["table_name"]),
                   saved \in BOOLEAN :
                  LET sp_filename == ProcedureFileName(req.arguments["table_name"])
                  IN  /\ generated_sql' =
                            IF skip_execution /\ saved
                            THEN Written(generated_sql, sp_filename, result)
                            ELSE generated_sql
                      /\ response' =
                            IF skip_execution
                            THEN [kind |-> "result", skipped |-> TRUE,
                                  procedure |-> result,
                                  sql_file |-> IF saved THEN sp_filename ELSE "none",
                                  error |-> IF saved THEN "none" ELSE "could not save"]
                            ELSE [kind |-> "result", skipped |-> FALSE,
                                  procedure |-> result]
                      /\ UNCHANGED executed

\* a second passes
Tick ==
    /\ now < MaxClock
    /\ now' = now + 1
    /\ UNCHANGED <<pc, skip_execution, request, response, generated_sql, executed,
                   calls, nameVars, tableVars, dictVars, callVars,
                   classVars, concVars>>

NextServer ==
    \/ CallUnknownTool
    \/ ConfigFails
    \/ MissingArgument
    \/ CreateTableSkipped
    \/ CreateTableNotSaved
    \/ CreateTableExecuted
    \/ CreateTableExecutionFails
    \/ CreateStoredProcedure
    \/ Tick

SpecServer == InitServer /\ [][NextServer]_vars

(***************************************************************************)
(* SpecClassify: _detect_data_type applied to one value                    *)
(***************************************************************************)
ValueAlphabet == {"1", "0", "-", ".", " ", "a"}

\* digit strings around the ends of the signed 32-bit range
RangeEdgeDigits ==
    { <<"2", "1", "4", "7", "4", "8", "3", "6", "4", "6">>,
      Int32MaxDigits,
      Int32MinDigits,
      <<"2", "1", "4", "7", "4", "8", "3", "6", "4", "9">>,
      <<"0">> \o Int32MinDigits,
      <<"1", "9", "9", "9", "9", "9", "9", "9", "9", "9">>,
      <<"3", "0", "0", "0", "0", "0", "0", "0", "0", "0">>,
      Int32MaxDigits \o <<"0">> }

RangeEdgeTexts ==
    RangeEdgeDigits
    \cup { <<"-">> \o ds : ds \in RangeEdgeDigits }
    \cup { <<" ">> \o ds \o <<" ">> : ds \in RangeEdgeDigits }

\* values of the other classes
OtherTexts ==
    { <<"t", "r", "u", "e">>, <<"F", "a", "l", "s", "e">>, <<"y", "e", "s">>,
      <<"n", "o">>, <<"T", "R", "U", "E">>, <<" ", "Y", "e", "S", " ">>,
      <<"N", "o">>, <<"o", "n">>, <<"o", "f", "f">>, <<"t">>, <<"y">>,
      <<"t", "r", "u", "e", "1">>,
      <<"2", "0", "2", "4", "-", "0", "1", "-", "3", "1">>,
      <<"0", "1", "/", "3", "1", "/", "2", "0", "2", "4">>,
      <<"2", "0", "2", "4", "-", "0", "1", "-", "3", "1", " ",
        "1", "0", ":", "0", "0", ":", "0", "0">>,
      <<"2", "0", "2", "4", "-", "0", "1", "-", "3", "1", " ",
        "1", "0", ":", "0", "0", ":", "0", "0", ".", "5">>,
      Pad(SmallStringLen), Pad(SmallStringLen + 1),
      Pad(MediumStringLen), Pad(MediumStringLen + 1) }

ClassifyValues == BSeq(ValueAlphabet, MaxValueLen) \cup RangeEdgeTexts \cup OtherTexts

InitClassify ==
    /\ pc = "call"
    /\ NoNaming
    /\ NoTable
    /\ NoDictionary
    /\ NoCall
    /\ NoServer
    /\ NoConcurrent
    /\ input_value \in ClassifyValues
    /\ detected = "none"

\* _detect_data_type(value)
Classify ==
    /\ pc = "call"
    /\ detected' = DetectDataType(input_value)
    /\ pc' = "done"
    /\ UNCHANGED <<concVars, input_value, serverVars, nameVars, tableVars, dictVars, callVars>>

NextClassify == Classify

SpecClassify == InitClassify /\ [][NextClassify]_vars

(***************************************************************************)
(* SpecConcurrent: two generation calls that run at the same time, each    *)
(* on its own file and table                                               *)
(***************************************************************************)
Callers == {"A", "B"}

FrameShared(c) == "A"

\* Where the locals of a call live.  columns, data_types, rows_analyzed
\* (lines 69-87) and mappings (line 247) are local variables: every call
\* has a frame of its own.
Frame(c) == c

EmptyFrame ==
    [column_names |-> <<>>, data_types |-> <<>>, rows_analyzed |-> 0,
     next_line |-> 1, mappings |-> <<>>, attempt |-> 0]

\* the files the concurrent calls read: an empty file, a one-column file,
\* a two-column file with a line of another field count, and a file with
\* an empty column name
ConcurrentTables ==
    { [exists |-> TRUE, header |-> <<>>, lines |-> <<>>],
      [exists |-> TRUE, header |-> << id >>,
       lines |-> << << <<"7">> >>, << <<"a", "b", "c">> >> >>],
      [exists |-> TRUE, header |-> << <<"1", "a">>, <<"a", " ", "b">> >>,
       lines |-> << << <<"7">>, <<"3", ".", "5">> >>, << <<"7">> >>,
                    << <<"7">>, <<"7">> >> >>],
      [exists |-> TRUE, header |-> << id, <<>> >>,
       lines |-> << << <<"7">>, <<"7">> >> >>] }

\* the dictionaries they read: none, an empty one, a UTF-8 one, one with a
\* byte order mark and one that only decodes as latin1 after its first row
ConcurrentDictionaries ==
    { MissingFile, EmptyFile } \cup
    { [exists |-> TRUE, bom |-> b, delimiter |-> ",", header |-> StandardHeader,
       rows |-> << << <<"n", "o">>, <<"N", " ", "o">>, <<"i", "n", "t">> >>,
                   << <<"1">>, <<"b", "i", "t">>, <<"1", "d">>, <<"A">> >> >>,
       utf8 |-> u, readable |-> IF u THEN 2 ELSE 1] :
         b \in BOOLEAN, u \in BOOLEAN }

\* the table each caller works on
TableOf(c) == IF c = "A" THEN <<"F">> ELSE <<"G">>

InitConcurrent ==
    /\ pc = "idle"
    /\ NoNaming
    /\ NoTable
    /\ NoDictionary
    /\ NoCall
    /\ NoServer
    /\ NoClassify
    /\ \E files \in [Callers -> ConcurrentTables \cup ConcurrentDictionaries] :
          callers = [c \in Callers |->
                       [fn |-> IF files[c] \in ConcurrentTables
                               THEN "generate_create_table_sql"
                               ELSE "generate_stored_procedure",
                        table_name |-> TableOf(c),
                        file |-> files[c],
                        pc |-> "call",
                        result |-> "none",
                        overlapped |-> FALSE]]
    /\ frames = [c \in Callers |-> EmptyFrame]

\* another call is between its first and its last step
OtherRunning(c) ==
    \E d \in Callers \ {c} : callers[d].pc \notin {"call", "done"}

\* caller c moves to position p
Goes(c, p) ==
    callers' = [callers EXCEPT ![c].pc = p,
                               ![c].overlapped = @ \/ OtherRunning(c)]

\* caller c returns text
Returns(c, text) ==
    callers' = [callers EXCEPT ![c].pc = "done",
                               ![c].result = text,
                               ![c].overlapped = @ \/ OtherRunning(c)]

Others == <<pc, nameVars, tableVars, dictVars, callVars, serverVars, classVars>>

\* the header is read and the tallies are created
ReadsHeader(c) ==
    /\ callers[c].pc = "call"
    /\ callers[c].fn = "generate_create_table_sql"
    /\ LET header_line == Strip(JoinPipe(callers[c].file.header))
       IN  IF header_line = <<>>
           THEN /\ Returns(c, FallbackTableText(callers[c].table_name, Wrapped(NoHeader)))
                /\ UNCHANGED frames
           ELSE /\ frames' = [frames EXCEPT ![Frame(c)] =
                      [@ EXCEPT !.column_names = StrippedFields(header_line),
                                !.data_types = InitDataTypes(StrippedFields(header_line)),
                                !.rows_analyzed = 0,
                                !.next_line = 1]]
                /\ Goes(c, "rows")
    /\ UNCHANGED Others

\* one iteration of `for line in file`, or its end
ReadsLine(c) ==
    /\ callers[c].pc = "rows"
    /\ LET fr == frames[Frame(c)]
           lines == callers[c].file.lines
       IN  IF BudgetUsedUp(fr.rows_analyzed, DefaultMaxRows) \/ fr.next_line > Len(lines)
           THEN Goes(c, "resolve") /\ UNCHANGED frames
           ELSE LET line == Strip(JoinPipe(lines[fr.next_line]))
                    values == StrippedFields(line)
                IN  /\ Goes(c, "rows")
                    /\ frames' = [frames EXCEPT ![Frame(c)] =
                          IF line = <<>> \/ Len(values) # Len(fr.column_names)
                          THEN [fr EXCEPT !.next_line = @ + 1]
                          ELSE [fr EXCEPT !.next_line = @ + 1,
                                          !.rows_analyzed = @ + 1,
                                          !.data_types = AppendDetected(
                                              fr.data_types, fr.column_names, values, 1)]]
    /\ UNCHANGED Others

\* the types are resolved and the CREATE TABLE text is returned
ResolvesTypes(c) ==
    /\ callers[c].pc = "resolve"
    /\ LET fr == frames[Frame(c)]
       IN  Returns(c, IF ColumnsRaise(fr.column_names)
                      THEN FallbackTableText(callers[c].table_name, StringIndex)
                      ELSE CreateTableText(callers[c].table_name,
                                           Columns(fr.column_names, fr.data_types)))
    /\ UNCHANGED <<frames, Others>>

\* _parse_mapping_file starts: mappings = []
OpensDictionary(c) ==
    /\ callers[c].pc = "call"
    /\ callers[c].fn = "generate_stored_procedure"
    /\ IF ~callers[c].file.exists
       THEN /\ Returns(c, FallbackProcedureText(callers[c].table_name, DictionaryNotFound))
            /\ UNCHANGED frames
       ELSE /\ frames' = [frames EXCEPT ![Frame(c)] =
                            [@ EXCEPT !.mappings = <<>>, !.attempt = 1]]
            /\ Goes(c, "try")
    /\ UNCHANGED Others

\* one encoding is tried, or the loop ends
TriesEncoding(c) ==
    /\ callers[c].pc = "try"
    /\ LET fr == frames[Frame(c)]
       IN  IF fr.attempt > Len(encodings_to_try)
           THEN Goes(c, "parsed") /\ UNCHANGED frames
           ELSE LET r == Attempt(encodings_to_try[fr.attempt], callers[c].file)
                    collected == fr.mappings \o r.appended
                IN  IF r.error = "ValueError"
                    THEN /\ Returns(c, FallbackProcedureText(callers[c].table_name,
                                                             Wrapped(EmptyDictionary)))
                         /\ UNCHANGED frames
                    ELSE IF r.error = "UnicodeDecodeError"
                    THEN /\ frames' = [frames EXCEPT ![Frame(c)] =
                                [fr EXCEPT !.mappings = collected, !.attempt = @ + 1]]
                         /\ Goes(c, "try")
                    ELSE IF collected # <<>>
                    THEN /\ frames' = [frames EXCEPT ![Frame(c)] =
                                [fr EXCEPT !.mappings = collected]]
                         /\ Goes(c, "parsed")
                    ELSE /\ frames' = [frames EXCEPT ![Frame(c)] =
                                [fr EXCEPT !.attempt = @ + 1]]
                         /\ Goes(c, "try")
    /\ UNCHANGED Others

\* the parse ends and the procedure text is built
BuildsProcedure(c) ==
    /\ callers[c].pc = "parsed"
    /\ LET fr == frames[Frame(c)]
       IN  Returns(c, IF fr.mappings = <<>>
                      THEN FallbackProcedureText(callers[c].table_name, CouldNotParse)
                      ELSE IF SelectMappingsRaise(fr.mappings)
                      THEN FallbackProcedureText(callers[c].table_name, StringIndex)
                      ELSE StoredProcedureText(callers[c].table_name, fr.mappings))
    /\ UNCHANGED <<frames, Others>>

NextConcurrent ==
    \E c \in Callers :
        \/ ReadsHeader(c)
        \/ ReadsLine(c)
        \/ ResolvesTypes(c)
        \/ OpensDictionary(c)
        \/ TriesEncoding(c)
        \/ BuildsProcedure(c)

SpecConcurrent == InitConcurrent /\ [][NextConcurrent]_vars

\* What one call returns when no other call runs.
RECURSIVE TallyLines(_, _, _, _, _)
TallyLines(names, lines, k, rows, dts) ==
    IF k > Len(lines) \/ BudgetUsedUp(rows, DefaultMaxRows) THEN dts
    ELSE LET line == Strip(JoinPipe(lines[k]))
             values == StrippedFields(line)
         IN  IF line = <<>> \/ Len(values) # Len(names)
             THEN TallyLines(names, lines, k + 1, rows, dts)
             ELSE TallyLines(names, lines, k + 1, rows + 1,
                             AppendDetected(dts, names, values, 1))

CreateTableAlone(tname, file) ==
    LET header_line == Strip(JoinPipe(file.header))
        names == StrippedFields(header_line)
    IN  IF header_line = <<>> THEN FallbackTableText(tname, Wrapped(NoHeader))
        ELSE IF ColumnsRaise(names) THEN FallbackTableText(tname, StringIndex)
        ELSE CreateTableText(tname,
                 Columns(names, TallyLines(names, file.lines, 1, 0, InitDataTypes(names))))

RECURSIVE MappingsFrom(_, _, _)
MappingsFrom(file, k, maps) ==
    IF k > Len(encodings_to_try) THEN [mappings |-> maps, error |-> "none"]
    ELSE LET r == Attempt(encodings_to_try[k], file)
         IN  IF r.error = "ValueError" THEN [mappings |-> maps, error |-> "ValueError"]
             ELSE IF r.error = "UnicodeDecodeError"
                 THEN MappingsFrom(file, k + 1, maps \o r.appended)
             ELSE IF maps \o r.appended # <<>>
                 THEN [mappings |-> maps \o r.appended, error |-> "none"]
             ELSE MappingsFrom(file, k + 1, maps)

StoredProcedureAlone(tname, file) ==
    IF ~file.exists THEN FallbackProcedureText(tname, DictionaryNotFound)
    ELSE LET parsed == MappingsFrom(file, 1, <<>>)
         IN  IF parsed.error = "ValueError"
                 THEN FallbackProcedureText(tname, Wrapped(EmptyDictionary))
             ELSE IF parsed.mappings = <<>>
                 THEN FallbackProcedureText(tname, CouldNotParse)
             ELSE IF SelectMappingsRaise(parsed.mappings)
                 THEN FallbackProcedureText(tname, StringIndex)
             ELSE StoredProcedureText(tname, parsed.mappings)

ReturnsAlone(call) ==
    IF call.fn = "generate_create_table_sql"
    THEN CreateTableAlone(call.table_name, call.file)
    ELSE StoredProcedureAlone(call.table_name, call.file)

(***************************************************************************)
(* C8: table-name prefixing is idempotent.  For each prefix, a name that   *)
(* already carries the prefix is returned unchanged, and the result of an  *)
(* application is a fixed point of that application (twice = once).        *)
(***************************************************************************)
C8_PrefixIdempotent ==
    applied # <<>> =>
        /\ applied[Len(applied)] = "src" =>
              /\ SrcPrefixed(name) = name
              /\ StartsWith(before, src) => name = before
        /\ applied[Len(applied)] = "stg" =>
              /\ StgPrefixed(name) = name
              /\ StartsWith(before, stg) => name = before

\* src applied twice in a row to a name that did not carry it
C8_Witness ==
    /\ applied = <<"src", "src">>
    /\ name = before
    /\ name = src \o <<"F">>

(***************************************************************************)
(* C9: column name sanitization is idempotent: wherever it is defined,     *)
(* sanitizing a sanitized name returns it unchanged.                       *)
(***************************************************************************)
C9_SanitizeIdempotent ==
    applied # <<>> => /\ ~CleanRaises(name)
                      /\ CleanColName(name) = name

\* a name with a leading digit and an illegal character, sanitized twice
C9_Witness ==
    /\ applied = <<"clean", "clean">>
    /\ name = Col_ \o <<"1", "_", "a">>
    /\ before = name

(***************************************************************************)
(* What a finished call of SpecTable returned                              *)
(***************************************************************************)
Returned == pc = "done" /\ outcome.kind = "returned"

\* the columns in the returned value, whichever function was called
ReturnedColumns ==
    IF entry = "generate_create_table_sql" THEN outcome.value.column_definitions
    ELSE outcome.value

\* the sampled values at header position i, in row order
ValuesAt(i) == [k \in 1..Len(sampled) |-> sampled[k][i]]

NonBlank(values) == SelectSeq(values, LAMBDA v : Strip(v) # <<>>)

Classified(values) == [k \in 1..Len(values) |-> DetectDataType(values[k])]

\* no other header field carries the name of field i
NameIsUnique(i) == \A j \in 1..Len(column_names) : column_names[j] = column_names[i] => j = i

(***************************************************************************)
(* C1: generate_create_table_sql never raises to its caller; when the      *)
(* analysis fails, the returned text carries the '-- ERROR:' marker with   *)
(* the failure reason and the fallback CREATE TABLE of the src-prefixed    *)
(* name with the two columns Id INT PRIMARY KEY and Data NVARCHAR(MAX).    *)
(***************************************************************************)
C1_CreateTableNeverRaises ==
    (pc = "done" /\ entry = "generate_create_table_sql") =>
        /\ outcome.kind = "returned"
        /\ failure # NoFailure =>
              /\ outcome.value.marker = "-- ERROR:"
              /\ outcome.value.reason = failure.msg
              /\ outcome.value.create_table \in {table_name, src \o table_name}
              /\ StartsWith(outcome.value.create_table, src)
              /\ ~StartsWith(outcome.value.create_table, src \o src)
              /\ outcome.value.column_definitions =
                    << [col_name |-> <<"I", "d">>, data_type |-> "INT",
                        primary_key |-> TRUE],
                       [col_name |-> <<"D", "a", "t", "a">>,
                        data_type |-> "NVARCHAR(MAX)", primary_key |-> FALSE] >>

\* an empty column name made the analysis fail after rows were sampled
C1_Witness ==
    /\ pc = "done"
    /\ entry = "generate_create_table_sql"
    /\ failure # NoFailure
    /\ failure.type = "IndexError"
    /\ sampled # <<>>
    /\ outcome.kind = "returned"
    /\ outcome.value.marker = "-- ERROR:"
    /\ outcome.value.create_table = src \o <<"F">>

(***************************************************************************)
(* C5: a blank sampled value contributes no evidence: a column whose       *)
(* non-blank sampled values all classify as non-string types resolves to   *)
(* the type those non-blank values alone resolve to.  Stated for columns   *)
(* whose header name is not repeated.                                      *)
(***************************************************************************)
C5_BlankNoEvidence ==
    (Returned /\ failure = NoFailure) =>
        \A i \in 1..Len(column_names) :
            LET evidence == Classified(NonBlank(ValuesAt(i)))
            IN  ( /\ NameIsUnique(i)
                  /\ evidence # <<>>
                  /\ \A k \in 1..Len(evidence) : ~IsStringType(evidence[k]) )
                => ReturnedColumns[i].data_type = FinalType(evidence)

(***************************************************************************)
(* C6: if a sampled value of a column is non-empty and classifies as a     *)
(* string type, the column resolves to the largest string type among the   *)
(* classifications of its sampled values.                                  *)
(***************************************************************************)
C6_StringWins ==
    (Returned /\ failure = NoFailure) =>
        \A i \in 1..Len(column_names) :
            LET classes == Classified(ValuesAt(i))
                strings == {classes[k] : k \in 1..Len(classes)} \cap StringTypes
            IN  (\E k \in 1..Len(classes) :
                    ValuesAt(i)[k] # <<>> /\ IsStringType(classes[k]))
                => ReturnedColumns[i].data_type = LargestStringType(strings)

\* the same statement for the columns whose header name is not repeated
C6_StringWinsUniqueNames ==
    (Returned /\ failure = NoFailure) =>
        \A i \in 1..Len(column_names) :
            LET classes == Classified(ValuesAt(i))
                strings == {classes[k] : k \in 1..Len(classes)} \cap StringTypes
            IN  ( /\ NameIsUnique(i)
                  /\ \E k \in 1..Len(classes) :
                        ValuesAt(i)[k] # <<>> /\ IsStringType(classes[k]) )
                => ReturnedColumns[i].data_type = LargestStringType(strings)

(***************************************************************************)
(* C10: every column the analysis returns has a sanitized name that is a   *)
(* valid SQL identifier: non-empty, [A-Za-z_][A-Za-z0-9_]*, no leading     *)
(* digit.                                                                  *)
(***************************************************************************)
C10_ValidIdentifiers ==
    (Returned /\ failure = NoFailure) =>
        \A i \in 1..Len(ReturnedColumns) :
            LET n == ReturnedColumns[i].col_name
            IN  /\ n # <<>>
                /\ n[1] \in Lower \cup Upper \cup {"_"}
                /\ n[1] \notin Digits
                /\ \A k \in 1..Len(n) : n[k] \in Lower \cup Upper \cup Digits \cup {"_"}

\* the header field 1a came back as Col_1a
C10_Witness ==
    /\ Returned
    /\ failure = NoFailure
    /\ column_names = << <<"1", "a">> >>
    /\ ReturnedColumns[1].col_name = Col_ \o <<"1", "a">>

(***************************************************************************)
(* Claims about generate_stored_procedure and _parse_mapping_file          *)
(***************************************************************************)
ProcedureDone == pc = "done" /\ entry = "generate_stored_procedure"

\* C2: generate_stored_procedure never raises to its caller; when the
\* dictionary is missing or any exception is raised while parsing it or
\* while building the column lists, the returned text carries the
\* '-- ERROR:' comment with the reason and a fallback CREATE PROCEDURE of
\* the stg-prefixed name whose body is SELECT * FROM the source table.
C2_ProcedureNeverRaises ==
    ProcedureDone =>
        /\ outcome.kind = "returned"
        /\ failure # NoFailure =>
              /\ outcome.value.marker = "-- ERROR:"
              /\ outcome.value.reason = failure.msg
              /\ outcome.value.procedure = StgPrefixed(table_name) \o _StoredProcedure
              /\ outcome.value.select_mappings = << [source |-> <<"*">>, alias |-> <<>>] >>
              /\ outcome.value.from_table = SourceTableOf(table_name)

\* a mapping whose source name is empty made the select list raise, and the
\* call still returned
C2_Witness ==
    /\ ProcedureDone
    /\ failure.type = "IndexError"
    /\ \E k \in 1..Len(mappings) : mappings[k].spanish_name = <<>>
    /\ outcome.kind = "returned"
    /\ outcome.value.marker = "-- ERROR:"

\* the encodings under which the whole file decodes and yields a mapping
YieldingAttempts ==
    {i \in 1..Len(encodings_to_try) :
        LET r == Attempt(encodings_to_try[i], dictionary)
        IN  r.error = "none" /\ r.appended # <<>>}

FirstYieldingAttempt == CHOOSE i \in YieldingAttempts : \A j \in YieldingAttempts : i <= j

\* C4: _parse_mapping_file returns exactly the mapping rows parsed under
\* the first encoding, in the order utf-8, utf-8-sig, latin1, cp1252,
\* iso-8859-1, that reads the whole file without a decode error and yields
\* a mapping, with no row of an attempt that ended in a decode error; it
\* fails if no encoding yields a mapping.
C4_FirstCleanEncodingOnly ==
    (pc = "done" /\ entry = "_parse_mapping_file") =>
        IF dictionary.exists /\ YieldingAttempts # {}
        THEN /\ outcome.kind = "returned"
             /\ outcome.value =
                   Attempt(encodings_to_try[FirstYieldingAttempt], dictionary).appended
        ELSE outcome.kind = "raised"

\* the input with a leading stg or src prefix removed
BareName(tname) ==
    IF StartsWith(tname, stg) \/ StartsWith(tname, src)
    THEN SubSeq(tname, Len(stg) + 1, Len(tname))
    ELSE tname

\* C7: the staging name and the source table reference that
\* generate_stored_procedure emits are the stg-prefixed and the
\* src-prefixed form of one bare name, the input without a leading stg or
\* src prefix.
C7_OneBareName ==
    (ProcedureDone /\ outcome.kind = "returned") =>
        /\ outcome.value.procedure = stg \o BareName(table_name) \o _StoredProcedure
        /\ outcome.value.from_table = src \o BareName(table_name)

(***************************************************************************)
(* Claims about the server                                                 *)
(***************************************************************************)
\* the last call was create_stored_procedure with table_name and
\* dictionary_path, and the connection configuration did not fail
ProcedureToolCalled ==
    /\ calls > 0
    /\ request.name = "create_stored_procedure"
    /\ {"table_name", "dictionary_path"} \subseteq DOMAIN request.arguments
    /\ ~(response.kind = "error" /\ response.exc = InvalidConfig)

\* C3: every create_stored_procedure call that gives table_name and
\* dictionary_path, with or without reference_sp_path, ends in a result
\* that carries the CREATE PROCEDURE text of generate_stored_procedure,
\* never in an error response.
C3_ProcedureToolReturnsSql ==
    ProcedureToolCalled =>
        /\ response.kind = "result"
        /\ response.procedure \in ProcedureTexts(request.arguments["table_name"])

(***************************************************************************)
(* Claims about the CREATE TABLE text and the classification               *)
(***************************************************************************)
\* C11: in the CREATE TABLE text the column at index 0 is marked PRIMARY
\* KEY iff its sanitized name, lower-cased, contains 'id'; no column at a
\* later index is marked, so at most one column is.
C11_PrimaryKeyOnlyFirst ==
    (Returned /\ entry = "generate_create_table_sql") =>
        \A i \in 1..Len(outcome.value.column_definitions) :
            outcome.value.column_definitions[i].primary_key
                <=> /\ i = 1
                    /\ Contains(ToLower(outcome.value.column_definitions[i].col_name), id)

\* an analysed file whose first column is marked and whose second column
\* has 'id' in its name and is not
C11_Witness ==
    /\ Returned
    /\ entry = "generate_create_table_sql"
    /\ failure = NoFailure
    /\ Len(outcome.value.column_definitions) = 2
    /\ outcome.value.column_definitions[1].primary_key
    /\ ~EndsWith(ToLower(outcome.value.column_definitions[1].col_name), _id)
    /\ Contains(ToLower(outcome.value.column_definitions[2].col_name), id)
    /\ ~outcome.value.column_definitions[2].primary_key

Classified32 == pc = "done" /\ detected # "none" /\ IsIntegerText(Strip(input_value))

\* the value of a digit string
RECURSIVE DecimalValue(_)
DecimalValue(ds) ==
    IF ds = <<>> THEN 0
    ELSE DecimalValue(SubSeq(ds, 1, Len(ds) - 1)) * 10 + DigitValue(ds[Len(ds)])

\* |int(text)| <= hi * 100000 + lo, compared in two halves
MagnitudeAtMost(text, hi, lo) ==
    LET ds == Magnitude(text)
        high == DecimalValue(SubSeq(ds, 1, Len(ds) - 5))
        low == DecimalValue(SubSeq(ds, IF Len(ds) > 5 THEN Len(ds) - 4 ELSE 1, Len(ds)))
    IN  high < hi \/ (high = hi /\ low <= lo)

IsNegative(text) == text[1] = "-" /\ Magnitude(text) # <<"0">>

\* C12 as stated: an integer text is INT when its value lies within
\* +-2147483647 and BIGINT when it lies outside, alike on both sides.
C12_SymmetricRange ==
    Classified32 =>
        detected = IF MagnitudeAtMost(Strip(input_value), 21474, 83647)
                   THEN "INT" ELSE "BIGINT"

\* C12 amended: an integer text is INT when its value lies in the signed
\* 32-bit range -2147483648 .. 2147483647 and BIGINT otherwise.
C12_Signed32Range ==
    Classified32 =>
        detected = IF \/ MagnitudeAtMost(Strip(input_value), 21474, 83647)
                      \/ /\ IsNegative(Strip(input_value))
                         /\ MagnitudeAtMost(Strip(input_value), 21474, 83648)
                   THEN "INT" ELSE "BIGINT"

\* the lower end of the range was classified INT
C12_Witness ==
    /\ Classified32
    /\ input_value = <<"-">> \o Int32MinDigits
    /\ detected = "INT"

\* the header positions that carry the name
PositionsOf(col_name) == {i \in 1..Len(column_names) : column_names[i] = col_name}

ParsedCleanFile ==
    /\ pc = "done"
    /\ entry = "_parse_mapping_file"
    /\ outcome.kind = "returned"
    /\ dictionary.utf8

\* the file without its rows of fewer than 3 fields
WithoutShortRows(file) ==
    [file EXCEPT !.rows = SelectSeq(@, LAMBDA row : Len(row) >= 3),
                 !.readable = Len(SelectSeq(file.rows, LAMBDA row : Len(row) >= 3))]

\* C14: in either format a dictionary row of fewer than 3 fields produces
\* no mapping and does not end the parsing: the result is the result for
\* the file without these rows.
C14_ShortRowsSkipped ==
    ParsedCleanFile =>
        outcome.value =
            Attempt(encodings_to_try[attempt], WithoutShortRows(dictionary)).appended

\* C15: every mapping that _parse_mapping_file returns has a non-empty
\* source name, target name and declared type.
C15_MappingFieldsNonEmpty ==
    (pc = "done" /\ entry = "_parse_mapping_file" /\ outcome.kind = "returned") =>
        \A k \in 1..Len(outcome.value) :
            /\ outcome.value[k].spanish_name # <<>>
            /\ outcome.value[k].english_name # <<>>
            /\ outcome.value[k].field_type # <<>>

\* the position of a header name in the header line, 0 if it has none
HeaderPosition(header, aliases) ==
    IF \E i \in 1..Len(header) : header[i] \in aliases
    THEN CHOOSE i \in 1..Len(header) : header[i] \in aliases
    ELSE 0

SourceAliases == {SGE_Column_Name, Spanish_Column_Name, Source_Column}
TargetAliases == {English_Column_Name, Target_Column, English_Name}

\* the stripped value of a row at a header position, or at the positional
\* column when the header has no such name; empty when the row is short
ValueUnder(row, position, positional) ==
    LET at == IF position = 0 THEN positional ELSE position
    IN  IF at <= Len(row) THEN Strip(row[at]) ELSE <<>>

\* C16: in a pipe-delimited dictionary the positional columns (source 3rd
\* field, target 4th field) are used only when the header has no
\* recognized name for the field; otherwise every mapping carries the
\* row's values under the recognized headers, and a row whose value under
\* such a header is empty is skipped.
C16_PositionalOnlyWithoutHeader ==
    (ParsedCleanFile /\ dictionary.delimiter = "|" /\ ~dictionary.bom) =>
        LET source_at == HeaderPosition(dictionary.header, SourceAliases)
            target_at == HeaderPosition(dictionary.header, TargetAliases)
            kept == SelectSeq(dictionary.rows,
                        LAMBDA row : /\ Len(row) >= 3
                                     /\ ValueUnder(row, source_at, 3) # <<>>
                                     /\ ValueUnder(row, target_at, 4) # <<>>)
        IN  /\ Len(outcome.value) = Len(kept)
            /\ \A k \in 1..Len(kept) :
                  /\ outcome.value[k].spanish_name = ValueUnder(kept[k], source_at, 3)
                  /\ outcome.value[k].english_name = ValueUnder(kept[k], target_at, 4)

(***************************************************************************)
(* Claims about the procedure text                                         *)
(***************************************************************************)
\* generate_stored_procedure returned the text of the success template
ProcedureBuilt == ProcedureDone /\ outcome.kind = "returned" /\ failure = NoFailure

\* the characters of a text that are not spaces, in order
WithoutSpaces(s) ==
    LET keep == {i \in 1..Len(s) : s[i] # " "}
        nth(n) == CHOOSE i \in keep : Cardinality({j \in keep : j <= i}) = n
    IN  [n \in 1..Cardinality(keep) |-> s[nth(n)]]

ToolCalled(tool) ==
    /\ calls > 0
    /\ request.name = tool
    /\ SubscriptedKeys(tool) \subseteq DOMAIN request.arguments
    /\ ~(response.kind = "error" /\ response.exc = InvalidConfig)

\* the files of the folder whose name starts with the stem and carries a
\* timestamp
TimestampedFiles(stem) ==
    {f \in generated_sql : f.name.stem = stem /\ f.name.timestamp # <<>>}

\* C18: with skip_execution no tool executes SQL, and each tool writes its
\* text to a file named after the prefixed table or procedure name and
\* the time of the call.
C18_SkippedCallsWriteTimestampedFiles ==
    skip_execution =>
        /\ executed = <<>>
        /\ (ToolCalled("create_table") /\ response.kind = "result"
                /\ response.error = "none") =>
              \E f \in TimestampedFiles(SrcPrefixed(request.arguments["table_name"])) :
                  f.text = response.sql
        /\ ToolCalled("create_stored_procedure") =>
              TimestampedFiles(StgPrefixed(request.arguments["table_name"])) # {}

\* the create_table part of C18: a skipped create_table call executes
\* nothing and leaves its text in a file named after the prefixed table
\* name and a second that has been reached
C18_TableFilesTimestamped ==
    skip_execution =>
        /\ executed = <<>>
        /\ (ToolCalled("create_table") /\ response.kind = "result"
                /\ response.error = "none") =>
              \E f \in TimestampedFiles(SrcPrefixed(request.arguments["table_name"])) :
                  /\ f.name = response.sql_file
                  /\ f.text = response.sql
        /\ \A f \in generated_sql : \E t \in 0..now : f.name.timestamp = <<t>>

(***************************************************************************)
(* Claims about concurrent calls                                           *)
(***************************************************************************)
\* C19: generation calls that run concurrently for different files and
\* tables do not interfere: under every interleaving of their steps each
\* call returns the text it returns when it runs alone.
C19_NoInterference ==
    \A c \in DOMAIN callers :
        callers[c].pc = "done" => callers[c].result = ReturnsAlone(callers[c])

\* both calls took steps while the other was running, one sampled a row,
\* the other collected a mapping, and both returned their success text
C19_Witness ==
    /\ DOMAIN callers = Callers
    /\ \A c \in Callers : /\ callers[c].pc = "done"
                         /\ callers[c].overlapped
                         /\ callers[c].result.marker = "none"
    /\ \E c \in Callers : frames[c].rows_analyzed > 0
    /\ \E c \in Callers : frames[c].mappings # <<>>

(***************************************************************************)
(* Claims about the resolution of ties                                     *)
(***************************************************************************)
\* t is the most frequent of the classifications, and of those that are as
\* frequent it is the one that occurs first
MostFrequentFirstSeen(classes, t) ==
    /\ \E k \in 1..Len(classes) : classes[k] = t
    /\ \A u \in {classes[k] : k \in 1..Len(classes)} :
          \/ Count(classes, u) < Count(classes, t)
          \/ /\ Count(classes, u) = Count(classes, t)
             /\ \E k \in 1..Len(classes) :
                   classes[k] = t /\ \A j \in 1..k : classes[j] = u => u = t

\* the sampled values of column i were classified and none is a string type
NoStringSeen(i) ==
    /\ ValuesAt(i) # <<>>
    /\ \A k \in 1..Len(ValuesAt(i)) : ~IsStringType(DetectDataType(ValuesAt(i)[k]))

\* C20: a column of which no sampled value classified as a string type
\* resolves to its most frequent classification, and among classifications
\* of the same highest count to the one seen first in row order.
C20_MostFrequentFirstSeen ==
    (Returned /\ failure = NoFailure) =>
        \A i \in 1..Len(column_names) :
            NoStringSeen(i) =>
                MostFrequentFirstSeen(Classified(ValuesAt(i)), ReturnedColumns[i].data_type)

\* the same statement for the columns whose header name is not repeated
C20_MostFrequentFirstSeenUniqueNames ==
    (Returned /\ failure = NoFailure) =>
        \A i \in 1..Len(column_names) :
            (NameIsUnique(i) /\ NoStringSeen(i)) =>
                MostFrequentFirstSeen(Classified(ValuesAt(i)), ReturnedColumns[i].data_type)

\* two classifications tie in a column of a unique name and the later one
\* in the alphabet, seen first, is the result
C20_TieReached ==
    /\ Returned
    /\ failure = NoFailure
    /\ \E i \in 1..Len(column_names) :
          /\ NameIsUnique(i)
          /\ Classified(ValuesAt(i)) = <<"INT", "DECIMAL(18,4)">>
          /\ ReturnedColumns[i].data_type = "INT"

(***************************************************************************)
(* C21                                                                     *)
(***************************************************************************)
\* the rules of the classification, in the order of the claim
RuleOrder == <<"integer", "decimal", "date", "datetime", "boolean", "string">>

\* the words the claim names as the only ones that classify as BIT
BitWords ==
    { <<"t", "r", "u", "e">>, <<"f", "a", "l", "s", "e">>, <<"y", "e", "s">>,
      <<"n", "o">> }

\* rule r, taken alone, accepts the stripped text v
RuleMatches(r, v) ==
    CASE r = "integer"  -> IsIntegerText(v)
      [] r = "decimal"  -> IsDecimalText(v)
      [] r = "date"     -> \E k \in 1..Len(date_patterns) : MatchesWhole(v, date_patterns[k])
      [] r = "datetime" -> \E k \in 1..Len(datetime_patterns) :
                               MatchesPrefix(v, datetime_patterns[k])
      [] r = "boolean"  -> ToLower(v) \in BitWords \cup {<<"1">>, <<"0">>}
      [] r = "string"   -> TRUE

\* the types rule r gives
RuleTypes(r) ==
    CASE r = "integer"  -> {"INT", "BIGINT"}
      [] r = "decimal"  -> {"DECIMAL(18,4)"}
      [] r = "date"     -> {"DATE"}
      [] r = "datetime" -> {"DATETIME2"}
      [] r = "boolean"  -> {"BIT"}
      [] r = "string"   -> StringTypes

FirstMatchingRule(v) ==
    RuleOrder[CHOOSE k \in 1..Len(RuleOrder) :
                  /\ RuleMatches(RuleOrder[k], v)
                  /\ \A j \in 1..(k - 1) : ~RuleMatches(RuleOrder[j], v)]

\* C21: a non-blank value is classified by the first of the rules integer,
\* decimal, date-only, date-time, boolean, string that matches it; the
\* tokens '1' and '0' are INT, and a value is BIT exactly when it is true,
\* false, yes or no in any letter case.
C21_FirstMatchWins ==
    (pc = "done" /\ detected # "none" /\ Strip(input_value) # <<>>) =>
        LET v == Strip(input_value)
        IN  /\ detected \in RuleTypes(FirstMatchingRule(v))
            /\ v \in {<<"1">>, <<"0">>} => detected = "INT"
            /\ detected = "BIT" <=> ToLower(v) \in BitWords

\* the token '1', with blanks around it, has been classified INT although
\* the boolean rule accepts it too
C21_Witness ==
    /\ pc = "done"
    /\ input_value # Strip(input_value)
    /\ Strip(input_value) = <<"1">>
    /\ RuleMatches("boolean", Strip(input_value))
    /\ detected = "INT"

(***************************************************************************)
(* C22                                                                     *)
(***************************************************************************)
\* a column of type t takes every value that classifies as u
TypeHolds(t, u) ==
    \/ u = t
    \/ t = "BIGINT" /\ u = "INT"
    \/ t = "DECIMAL(18,4)" /\ u \in {"INT", "BIGINT"}
    \/ t = "DATETIME2" /\ u = "DATE"

\* the resolved type of column i takes every non-blank sampled value of it
HoldsItsValues(i) ==
    LET t == ReturnedColumns[i].data_type
        values == NonBlank(ValuesAt(i))
    IN  ~IsStringType(t) =>
            \A k \in 1..Len(values) : TypeHolds(t, DetectDataType(values[k]))

\* C22: a column resolved to INT, BIGINT, DECIMAL(18,4), DATE, DATETIME2 or
\* BIT has no non-blank sampled value that classifies outside that type and
\* the types it contains.
C22_ResolvedTypeHoldsValues ==
    (Returned /\ failure = NoFailure) =>
        \A i \in 1..Len(column_names) : HoldsItsValues(i)

\* the same statement for the columns whose header name is not repeated
C22_ResolvedTypeHoldsValuesUniqueNames ==
    (Returned /\ failure = NoFailure) =>
        \A i \in 1..Len(column_names) : NameIsUnique(i) => HoldsItsValues(i)

(***************************************************************************)
(* C23                                                                     *)
(***************************************************************************)
\* the tally of lines 102-108 over rows that have the header's field count
RECURSIVE TallyRows(_, _, _, _)
TallyRows(names, rows, k, dts) ==
    IF k > Len(rows) THEN dts
    ELSE TallyRows(names, rows, k + 1, AppendDetected(dts, names, rows[k], 1))

\* the types the analysis resolves for a file of these header names and rows
TypesOf(names, rows) ==
    LET columns == Columns(names, TallyRows(names, rows, 1, InitDataTypes(names)))
    IN  [i \in 1..Len(names) |-> columns[i].data_type]

\* the header with every field but the i-th given a name of its own
RenamedOthers(names, i) ==
    [j \in 1..Len(names) |-> IF j = i THEN names[i] ELSE names[i] \o Pad(j)]

\* the rows with every value but the i-th replaced by v
ReplacedOthers(rows, i, v) ==
    [k \in 1..Len(rows) |-> [j \in 1..Len(rows[k]) |-> IF j = i THEN rows[k][i] ELSE v]]

\* the type of column i is the same in the files that differ from this one
\* in the names, or in the values, of the other columns
IndependentOfOthers(i) ==
    /\ ReturnedColumns[i].data_type = TypesOf(RenamedOthers(column_names, i), sampled)[i]
    /\ \A v \in SampleValues :
          ReturnedColumns[i].data_type
              = TypesOf(column_names, ReplacedOthers(sampled, i, v))[i]

\* C23: the resolved type of the column at position i depends only on the
\* sampled values at position i: another header name or other values in
\* another column leave it as it is, also when two header fields carry the
\* same name.
C23_ColumnsIndependent ==
    (Returned /\ failure = NoFailure) =>
        \A i \in 1..Len(column_names) : IndependentOfOthers(i)

\* the same statement for the columns whose header name is not repeated
C23_ColumnsIndependentUniqueNames ==
    (Returned /\ failure = NoFailure) =>
        \A i \in 1..Len(column_names) : NameIsUnique(i) => IndependentOfOthers(i)

\* a column with a name of its own stands beside another column that has
\* sampled values of another classification
C23_UniqueNamesReached ==
    /\ Returned
    /\ failure = NoFailure
    /\ \E i, j \in 1..Len(column_names) :
          /\ i # j
          /\ NameIsUnique(i)
          /\ sampled # <<>>
          /\ ~IsStringType(ReturnedColumns[i].data_type)
          /\ IsStringType(ReturnedColumns[j].data_type)

(***************************************************************************)
(* C24                                                                     *)
(***************************************************************************)
\* the table that generate_create_table_sql creates for this table name,
\* whatever the columns and whichever template is returned
CreatedTables(tname) ==
    { CreateTableText(tname, <<>>).create_table,
      FallbackTableText(tname, Wrapped(NoHeader)).create_table }

\* C24: for a table name given unchanged to generate_create_table_sql and
\* to generate_stored_procedure, the table the procedure selects from is
\* the table the CREATE TABLE statement creates, also for names that start
\* with src or with stg.
C24_SourceTableIsCreatedTable ==
    (ProcedureDone /\ outcome.kind = "returned") =>
        CreatedTables(table_name) = {outcome.value.from_table}

\* the same statement for the table names that do not start with stg
C24_SourceTableIsCreatedTableNoStg ==
    (ProcedureDone /\ outcome.kind = "returned" /\ ~StartsWith(table_name, stg)) =>
        CreatedTables(table_name) = {outcome.value.from_table}

\* a procedure was generated for a name that starts with src
C24_SrcNameReached ==
    /\ ProcedureDone
    /\ outcome.kind = "returned"
    /\ StartsWith(table_name, src)
    /\ Len(table_name) > Len(src)
    /\ outcome.value.from_table = table_name

====
